---------------------------- MODULE Spec2Model ----------------------------
(***************************************************************************)
(* Stream-to-chat bridge: the per-message accumulation buffer              *)
(* (src/bridge/buffer.ts), the event consumer with its flush scheduling    *)
(* and reconnect backoff (src/handler/index.ts), the inbound duplicate     *)
(* guard of the Feishu client, the card renderer's section parse           *)
(* (src/feishu/feishu.renderer.ts) and the queued revision of the          *)
(* incoming handler.                                                       *)
(*                                                                         *)
(* Strings are sequences of one-character strings, so that length,         *)
(* concatenation and the character codes the hash reads are the real ones. *)
(* An optional value (a field that may be undefined) is a sequence of      *)
(* length 0 or 1: None, or Some(v).                                        *)
(*                                                                         *)
(* The module holds several specifications over the same variables:        *)
(*   SpecBuf     applyPartToBuffer on one buffer, text/reasoning/other     *)
(*               parts                                                     *)
(*   SpecMix     applyPartToBuffer on one buffer, a growing text reported  *)
(*               by deltas and snapshots                                   *)
(*   SpecTool    applyPartToBuffer on one buffer, tool parts               *)
(*   Spec        one subscription loop dispatching stream events to the    *)
(*               handlers, with the transport's outcomes and the clock     *)
(*   SpecConn    the subscription loop's connect, failure, backoff, stop   *)
(*   SpecInbound the Feishu dispatcher: duplicate guard, content cleaning, *)
(*               incoming handler                                          *)
(*   SpecSession conversations handled by the incoming handler, the        *)
(*               session cache, stop                                       *)
(*   SpecDeleted Spec with session.deleted events on the stream            *)
(*   SpecFail    the loop of Spec up to a failure of its stream            *)
(*   SpecLoops   loops started, stopped and started again, the part        *)
(*               handler split at the await of its transport write         *)
(*   SpecGap     SpecMix on a feed that loses and repeats events           *)
(*   SpecRender  buildDisplayContent on the buffers applyPartToBuffer and  *)
(*               markStatus build, and parseSections on its result         *)
(*   SpecRoute   Spec with part events of any session and message          *)
(*   SpecErr     Spec with message.updated events that carry an error      *)
(*   SpecRace    calls of the incoming handler running concurrently        *)
(*   SpecGuard   the duplicate guard alone                                 *)
(*   SpecClip    clipTail on any string and budget                         *)
(*   SpecQueue   the queued handler revision, its tasks split at their     *)
(*               awaits                                                    *)
(* A specification leaves the variables it does not use at their initial   *)
(* value.                                                                  *)
(***************************************************************************)
EXTENDS Integers, Sequences, FiniteSets, TLC

VARIABLES
  buf,      \* SpecBuf/SpecMix/SpecTool/SpecGap/SpecRender: the MessageBuffer under test
  last,     \* the part event applied last to buf (history)
  dcat,     \* SpecBuf: concatenation of the deltas applied so far (history);
            \* SpecMix/SpecGap: the backend's full texts so far;
            \* SpecRender: the content rendered last and its parse;
            \* SpecGuard: the log of the guard's calls; SpecClip: the call and its results
  \* handler/index.ts, module state
  sessionToCtx,         \* sessionId -> [chatId, senderId]
  sessionActiveMsg,     \* sessionId -> active assistant messageID
  msgRole,              \* messageId -> role
  msgBuffers,           \* messageId -> MessageBuffer
  sessionCache,         \* <<adapterKey, chatId>> -> sessionId
  sessionToAdapterKey,  \* sessionId -> adapterKey
  isListenerStarted,
  shouldStopListener,
  loops,    \* the connect closures: loop id -> [pc, retryCount, delay, fails, seen, write]
  processedMessageIds,  \* the Feishu client's remembered inbound ids, oldest first
  tasks,    \* the calls of the incoming handler: position and locals of each, by inbound
            \* id (SpecRace) or in arrival order (SpecQueue)
  chatQueues,           \* queued handler revision: chatId -> the task registered last
  \* environment
  now,      \* Date.now()
  nextId,   \* the transport's next platform message id
  \* history
  ev,       \* the event handled last
  calls,    \* the transport calls the last step issued, in order
  dec,      \* messageId -> the last two unforced flush decisions on its buffer
  shown,    \* messageId -> the content of the last write the transport accepted
  hist      \* inbound id -> how often delivered, handed to the handler, prompted, evicted

bufVars == <<buf, last, dcat>>
mapVars == <<sessionToCtx, sessionActiveMsg, msgRole, msgBuffers, sessionCache,
             sessionToAdapterKey>>
listenerVars == <<isListenerStarted, shouldStopListener, loops>>
inboundVars == <<processedMessageIds, hist, tasks, chatQueues>>
consumerVars == <<mapVars, listenerVars, inboundVars, now, nextId, ev, calls, dec, shown>>
vars == <<bufVars, consumerVars>>

---------------------------------------------------------------------------
(* Optional values *)
None == <<>>
Some(x) == <<x>>
IsSome(o) == Len(o) = 1
Val(o) == o[1]
\* JavaScript truthiness of an optional string / optional number
TruthyStr(o) == IsSome(o) /\ Len(Val(o)) > 0
TruthyNum(o) == IsSome(o) /\ Val(o) # 0

---------------------------------------------------------------------------
(* Bounds of the model *)
MaxTextLen == 5      \* longest accumulated answer text explored
MaxReasonLen == 2    \* longest accumulated reasoning text explored

---------------------------------------------------------------------------
(* bridge/buffer.ts *)

\* getOrInitBuffer: the record a new buffer starts as
NewBuffer ==
  [ platformMsgId |-> None,
    reasoning |-> <<>>,
    text |-> <<>>,
    tools |-> <<>>,            \* Map callID -> ToolView, in insertion order
    lastUpdateTime |-> 0,
    lastDisplayHash |-> None,  \* '' until a hash is recorded
    status |-> "streaming",
    statusNote |-> <<>>,
    isCommand |-> FALSE ]

\* `buffer.text += delta`
AppendDelta_prepend(cur, delta) == delta \o cur
AppendDelta(cur, delta) == cur \o delta

\* `snap.length > buffer.text.length`: the snapshot-replaces-if-longer test
SnapshotAdopts_differs(snap, cur) == Len(snap) # Len(cur)
SnapshotAdopts_orEqual(snap, cur) == Len(snap) >= Len(cur)
SnapshotAdopts(snap, cur) == Len(snap) > Len(cur)

\* a lookup that finds no view
ToolIndex_absent(tools, callID) == 0

\* index of the view of callID in the tools map, 0 when absent
ToolIndex(tools, callID) ==
  IF \E i \in 1..Len(tools) : tools[i].callID = callID
  THEN CHOOSE i \in 1..Len(tools) : tools[i].callID = callID
  ELSE 0

\* the tool branch of applyPartToBuffer: look up or create the view, refresh
\* tool/status/input, then adopt the fields of the state's status
MergeToolView(tools, part) ==
  LET i == ToolIndex(tools, part.callID)
      st == part.state
      fresh == [ callID |-> part.callID, tool |-> part.tool, status |-> st.status,
                 title |-> None, input |-> None, output |-> None, error |-> None,
                 start |-> None, end |-> None ]
      v0 == IF i > 0 THEN tools[i] ELSE fresh
      v1 == [v0 EXCEPT !.tool = part.tool, !.status = st.status, !.input = st.input]
      withStart(v) == IF TruthyNum(st.start) THEN [v EXCEPT !.start = st.start] ELSE v
      withEnd(v) == IF TruthyNum(st.end) THEN [v EXCEPT !.end = st.end] ELSE v
      v2 == CASE st.status = "pending" -> v1
              [] st.status = "running" ->
                   withStart(IF TruthyStr(st.title) THEN [v1 EXCEPT !.title = st.title] ELSE v1)
              [] st.status = "completed" ->
                   withEnd(withStart([v1 EXCEPT !.title = st.title, !.output = st.output]))
              [] st.status = "error" ->
                   withEnd(withStart([v1 EXCEPT !.error = st.error]))
  IN IF i > 0 THEN [tools EXCEPT ![i] = v2] ELSE Append(tools, v2)

applyPartToBuffer(buffer, part, delta) ==
  IF part.type \in {"text", "reasoning"} THEN
    IF IsSome(delta) /\ Len(Val(delta)) > 0 THEN
      IF part.type = "reasoning"
      THEN [buffer EXCEPT !.reasoning = AppendDelta(@, Val(delta))]
      ELSE [buffer EXCEPT !.text = AppendDelta(@, Val(delta))]
    ELSE IF IsSome(part.text) THEN
      LET snap == Val(part.text) IN
      IF part.type = "reasoning" /\ SnapshotAdopts(snap, buffer.reasoning)
      THEN [buffer EXCEPT !.reasoning = snap]
      ELSE IF part.type = "text" /\ SnapshotAdopts(snap, buffer.text)
      THEN [buffer EXCEPT !.text = snap]
      ELSE buffer
    ELSE buffer
  ELSE IF part.type = "tool" THEN
    [buffer EXCEPT !.tools = MergeToolView(@, part)]
  ELSE buffer

---------------------------------------------------------------------------
(* Rendering and hashing (bridge/buffer.ts) *)

\* the printable ASCII characters, in code order from 32 (the backquote, which a
\* TLA+ string cannot hold, is written "U+0060")
AsciiChars ==
  << " ", "!", "\"", "#", "$", "%", "&", "'", "(", ")", "*", "+",
     ",", "-", ".", "/", "0", "1", "2", "3", "4", "5", "6", "7",
     "8", "9", ":", ";", "<", "=", ">", "?", "@", "A", "B", "C",
     "D", "E", "F", "G", "H", "I", "J", "K", "L", "M", "N", "O",
     "P", "Q", "R", "S", "T", "U", "V", "W", "X", "Y", "Z", "[",
     "\\", "]", "^", "_", "U+0060", "a", "b", "c", "d", "e", "f", "g",
     "h", "i", "j", "k", "l", "m", "n", "o", "p", "q", "r", "s",
     "t", "u", "v", "w", "x", "y", "z", "{", "|", "}", "~" >>

\* the two UTF-16 code units of the compass emoji of the '## Command' heading
EmojiHi == "U+D83E"
EmojiLo == "U+DDED"

CharSet == {AsciiChars[i] : i \in 1..Len(AsciiChars)} \cup {"\n", EmojiHi, EmojiLo}

\* s.charCodeAt(i), tabulated once
CodeTable ==
  [ c \in CharSet |->
      CASE c = "\n" -> 10
        [] c = EmojiHi -> 55358
        [] c = EmojiLo -> 56813
        [] OTHER -> 31 + (CHOOSE i \in 1..Len(AsciiChars) : AsciiChars[i] = c) ]
charCodeAt(c) == CodeTable[c]

\* one step of simpleHash, h = (h * 31 + code) >>> 0, on a 32-bit value held as its
\* two 16-bit halves <<hi, lo>>
HashStep(h, code) ==
  LET l == h[2] * 31 + code IN <<(h[1] * 31 + (l \div 65536)) % 65536, l % 65536>>

RECURSIVE HashRange(_, _, _, _)
\* the loop of simpleHash over s[from..to], started at h; the steps are taken in
\* index order (a range of up to four characters is stepped through directly; a
\* longer one is halved, and the left half's value is computed before the right
\* half starts, only to keep the evaluation shallow)
HashRange(h, s, from, to) ==
  IF from > to THEN h
  ELSE IF from = to THEN HashStep(h, charCodeAt(s[from]))
  ELSE IF from + 1 = to
    THEN HashStep(HashStep(h, charCodeAt(s[from])), charCodeAt(s[to]))
  ELSE IF from + 2 = to
    THEN HashStep(HashStep(HashStep(h, charCodeAt(s[from])),
                           charCodeAt(s[from + 1])), charCodeAt(s[to]))
  ELSE IF from + 3 = to
    THEN HashStep(HashStep(HashStep(HashStep(h, charCodeAt(s[from])),
                                    charCodeAt(s[from + 1])),
                           charCodeAt(s[from + 2])), charCodeAt(s[to]))
  ELSE LET mid == (from + to) \div 2
           left == HashRange(h, s, from, mid)
       IN IF Len(left) = 2 THEN HashRange(left, s, mid + 1, to) ELSE <<0, 0>>

\* simpleHash(s): String(h) is one-to-one on 32-bit values, so the string is modelled
\* by the value itself
simpleHash(s) == HashRange(<<0, 0>>, s, 1, Len(s))

\* clipTail(s, max); s.slice(-max) counts from the end for max > 0 and from the
\* start otherwise (slice(-0) is slice(0))
clipTail(s, max) ==
  IF Len(s) = 0 THEN <<>>
  ELSE IF Len(s) <= max THEN s
  ELSE IF max > 0 THEN SubSeq(s, Len(s) - max + 1, Len(s))
  ELSE SubSeq(s, (IF -max < Len(s) THEN -max ELSE Len(s)) + 1, Len(s))

SAFE_MAX_REASONING == 8000
SAFE_MAX_TEXT == 24000
SAFE_MAX_TOOL_INPUT == 4000
SAFE_MAX_TOOL_OUTPUT == 8000

RECURSIVE JoinWith(_, _)
\* lines.join(sep)
JoinWith(lines, sep) ==
  IF Len(lines) = 0 THEN <<>>
  ELSE IF Len(lines) = 1 THEN lines[1]
  ELSE lines[1] \o sep \o JoinWith(Tail(lines), sep)

RECURSIVE IndentLines(_)
\* s.split('\n').map(l => `  ${l}`).join('\n')
IndentLines(s) ==
  LET RECURSIVE After(_)
      After(i) == IF i > Len(s) THEN <<>>
                  ELSE IF s[i] = "\n" THEN <<"\n", " ", " ">> \o After(i + 1)
                  ELSE <<s[i]>> \o After(i + 1)
  IN <<" ", " ">> \o After(1)

Digits == <<"0", "1", "2", "3", "4", "5", "6", "7", "8", "9">>
RECURSIVE NumStr(_)
\* a non-negative number in a template string
NumStr(n) == IF n < 10 THEN <<Digits[n + 1]>> ELSE NumStr(n \div 10) \o <<Digits[(n % 10) + 1]>>

\* JSON.stringify(x, null, 2) of a flat object, held as the sequence of its
\* [key, value] members (the value a number)
JsonStringify(obj) ==
  IF Len(obj) = 0 THEN <<"{", "}">>
  ELSE <<"{", "\n">>
       \o JoinWith([i \in 1..Len(obj) |->
                     <<" ", " ", "\"">> \o obj[i].key \o <<"\"", ":", " ">> \o NumStr(obj[i].value)],
                   <<",", "\n">>)
       \o <<"\n", "}">>
safeJsonStringify(x, maxChars) == clipTail(JsonStringify(x), maxChars)

WhiteSpace == {" ", "\n"}
\* !s.trim()
IsBlank(s) == \A i \in 1..Len(s) : s[i] \in WhiteSpace

\* the enum values as the strings the template prints
StatusText(st) ==
  CASE st = "streaming" -> <<"s", "t", "r", "e", "a", "m", "i", "n", "g">>
    [] st = "done" -> <<"d", "o", "n", "e">>
    [] st = "aborted" -> <<"a", "b", "o", "r", "t", "e", "d">>
    [] st = "error" -> <<"e", "r", "r", "o", "r">>
    [] st = "pending" -> <<"p", "e", "n", "d", "i", "n", "g">>
    [] st = "running" -> <<"r", "u", "n", "n", "i", "n", "g">>
    [] st = "completed" -> <<"c", "o", "m", "p", "l", "e", "t", "e", "d">>

\* the lines buildDisplayContent pushes for one tool view
ToolLines(t) ==
  << <<"-">> \o (IF Len(t.tool) > 0 THEN t.tool ELSE <<"t", "o", "o", "l">>)
       \o <<"(">> \o StatusText(t.status) \o <<")">>
       \o (IF TruthyStr(t.title) THEN <<" ">> \o Val(t.title) ELSE <<>>) >>
  \o (IF IsSome(t.input)
      THEN << <<" ", " ", "i", "n", "p", "u", "t", ":">>, <<" ", " ", "U+0060", "U+0060", "U+0060", "j", "s", "o", "n">>,
              IndentLines(safeJsonStringify(Val(t.input), SAFE_MAX_TOOL_INPUT)), <<" ", " ", "U+0060", "U+0060", "U+0060">> >>
      ELSE <<>>)
  \o (IF TruthyStr(t.output)
      THEN << <<" ", " ", "o", "u", "t", "p", "u", "t", ":">>, <<" ", " ", "U+0060", "U+0060", "U+0060">>,
              IndentLines(clipTail(Val(t.output), SAFE_MAX_TOOL_OUTPUT)), <<" ", " ", "U+0060", "U+0060", "U+0060">> >>
      ELSE <<>>)
  \o (IF TruthyStr(t.error)
      THEN << <<" ", " ", "e", "r", "r", "o", "r", ":">>, <<" ", " ", "U+0060", "U+0060", "U+0060">>,
              IndentLines(clipTail(Val(t.error), SAFE_MAX_TOOL_OUTPUT)), <<" ", " ", "U+0060", "U+0060", "U+0060">> >>
      ELSE <<>>)
  \o (IF TruthyNum(t.start) \/ TruthyNum(t.end)
      THEN << <<" ", " ", "t", "i", "m", "e", ":", " ">>
              \o (IF IsSome(t.start) THEN NumStr(Val(t.start)) ELSE <<>>)
              \o (IF TruthyNum(t.end) THEN <<" ", "-", ">", " ">> \o NumStr(Val(t.end)) ELSE <<>>) >>
      ELSE <<>>)

RECURSIVE AllToolLines(_)
AllToolLines(tools) ==
  IF Len(tools) = 0 THEN <<>> ELSE ToolLines(tools[1]) \o AllToolLines(Tail(tools))

H_Answer == <<"#", "#", " ", "A", "n", "s", "w", "e", "r">>
H_Command == <<"#", "#", " ", "C", "o", "m", "m", "a", "n", "d", " ">> \o <<EmojiHi, EmojiLo>>
H_Thinking == <<"#", "#", " ", "T", "h", "i", "n", "k", "i", "n", "g">>
H_Tools == <<"#", "#", " ", "T", "o", "o", "l", "s">>
H_Status == <<"#", "#", " ", "S", "t", "a", "t", "u", "s">>

\* the lines of the sections, in the order buildDisplayContent pushes them
AnswerLines(buffer) ==
  << IF buffer.isCommand THEN H_Command ELSE H_Answer,
     IF Len(buffer.text) > 0 THEN clipTail(buffer.text, SAFE_MAX_TEXT) ELSE <<>>,
     <<>> >>
ThinkingLines_nonEmpty(buffer) ==
  IF Len(buffer.reasoning) > 0
  THEN << H_Thinking, clipTail(buffer.reasoning, SAFE_MAX_REASONING), <<>> >>
  ELSE <<>>
ThinkingLines(buffer) ==
  IF Len(buffer.reasoning) > 0 /\ ~IsBlank(buffer.reasoning)
  THEN << H_Thinking, clipTail(buffer.reasoning, SAFE_MAX_REASONING), <<>> >>
  ELSE <<>>
ToolsLines(buffer) ==
  IF Len(buffer.tools) > 0
  THEN <<H_Tools>> \o AllToolLines(buffer.tools) \o << <<>> >>
  ELSE <<>>
StatusLines(buffer) ==
  << H_Status,
     StatusText(buffer.status)
       \o (IF Len(buffer.statusNote) > 0 THEN <<":", " ">> \o buffer.statusNote ELSE <<>>) >>

buildDisplayContent(buffer) ==
  JoinWith(AnswerLines(buffer) \o ThinkingLines(buffer) \o ToolsLines(buffer)
             \o StatusLines(buffer),
           <<"\n">>)

---------------------------------------------------------------------------
(* handler/index.ts: the module state and the flush helpers *)

EmptyMap == << >>
\* map.set(k, v)
Put(f, k, v) == [x \in DOMAIN f \cup {k} |-> IF x = k THEN v ELSE f[x]]

LoopIds == {1, 2}
NoEv == [kind |-> "none", sid |-> "-", mid |-> "-", ptype |-> "-"]
\* the step taken last, when it is not the handling of a stream event
LoopEv(kind) == [NoEv EXCEPT !.kind = kind]
\* a loop: where connect() is, its retryCount, the delay of the pending reconnect
\* timer, the transport write its handler is waiting for, and two counts kept for the
\* analysis: failures in a row, events handled
NoLoop == [pc |-> "none", retryCount |-> 0, delay |-> 0, fails |-> 0, seen |-> 0,
           write |-> None]

InitConsumer ==
  /\ sessionToCtx = EmptyMap
  /\ sessionActiveMsg = EmptyMap
  /\ msgRole = EmptyMap
  /\ msgBuffers = EmptyMap
  /\ sessionCache = EmptyMap
  /\ sessionToAdapterKey = EmptyMap
  /\ isListenerStarted = FALSE
  /\ shouldStopListener = FALSE
  /\ loops = [l \in LoopIds |-> NoLoop]
  /\ now = 1000000
  /\ nextId = 1
  /\ ev = NoEv
  /\ calls = <<>>
  /\ dec = EmptyMap
  /\ shown = EmptyMap
  /\ processedMessageIds = <<>>
  /\ hist = EmptyMap
  /\ tasks = EmptyMap
  /\ chatQueues = EmptyMap

UPDATE_INTERVAL == 900

Min(a, b) == IF a <= b THEN a ELSE b

\* `Math.min(5000 * (retryCount + 1), 60000)`
ReconnectDelay_noCap(retryCount) == 5000 * (retryCount + 1)
ReconnectDelay(retryCount) == Min(5000 * (retryCount + 1), 60000)

\* the handler's working state while one event is processed: the maps an event
\* handler writes, the clock, the history of its transport calls, and whether an
\* exception has left the handler
World ==
  [ bufs |-> msgBuffers, active |-> sessionActiveMsg, role |-> msgRole,
    now |-> now, nextId |-> nextId, calls |-> <<>>, dec |-> dec, shown |-> shown,
    threw |-> FALSE ]

getOrInitBuffer(store, messageId) ==
  IF messageId \in DOMAIN store THEN store[messageId] ELSE NewBuffer

\* markStatus(store, messageId, status, note): note is optional
markStatus(store, messageId, status, note) ==
  LET b0 == getOrInitBuffer(store, messageId)
      b1 == [b0 EXCEPT !.status = status]
      b2 == IF TruthyStr(note) THEN [b1 EXCEPT !.statusNote = clipTail(Val(note), 500)] ELSE b1
  IN Put(store, messageId, b2)

\* shouldFlushNow(buffer), at clock value t
ShouldFlushNow_always(buffer, t) == TRUE
shouldFlushNow(buffer, t) ==
  ~IsSome(buffer.platformMsgId) \/ t - buffer.lastUpdateTime > UPDATE_INTERVAL

\* what the platform call behind a write (im.message.create, im.message.patch) does:
\* it answers code 0, it answers another code, or it rejects
ApiResults == {"ok", "refused", "rejects"}

\* FeishuClient.sendMessage / editMessage seen from the handler: "ok" (an id, true),
\* "fail" (null, false) or "throws"; the client's try/catch turns a rejection into
\* a reported failure
ClientReports_rethrows(api) ==
  IF api = "ok" THEN "ok" ELSE IF api = "rejects" THEN "throws" ELSE "fail"
ClientReports(api) == IF api = "ok" THEN "ok" ELSE "fail"

\* sendMessage: a platform message id, or null
SendOutcomes == { ClientReports(api) : api \in ApiResults }

\* The results of the editMessage calls of one safeEditWithRetry, in order: the first
\* call, and the retry after sleep(500) when the first reported failure.
EditOutcomes_retriesAgain ==
  { <<r>> : r \in SendOutcomes \ {"fail"} }
    \cup { <<"fail", r>> : r \in SendOutcomes \ {"fail"} }
    \cup { <<"fail", "fail", r>> : r \in SendOutcomes }
EditOutcomes ==
  { <<r>> : r \in SendOutcomes \ {"fail"} } \cup { <<"fail", r>> : r \in SendOutcomes }

\* the call threw: safeEditWithRetry and the send of the part branch let it through
Threw(outcome) == Len(outcome) > 0 /\ outcome[Len(outcome)] = "throws"

\* the editMessage calls of one safeEditWithRetry begun at clock value t: message,
\* content, whether the flush is forced, the clock at the call, what it reported
EditCalls(mid, content, force, eo, t) ==
  [i \in 1..Len(eo) |-> [op |-> "edit", mid |-> mid, force |-> force,
                         content |-> content, at |-> t + 500 * (i - 1),
                         ok |-> eo[i] = "ok"]]

\* safeEditWithRetry on the buffer of mid, with content: the history of its calls, the
\* clock past the sleep, and the content the transport accepted
safeEditWithRetry(W, mid, content, force, eo) ==
  [W EXCEPT !.calls = @ \o EditCalls(mid, content, force, eo, W.now),
            !.now = @ + 500 * (Len(eo) - 1),
            !.shown = IF eo[Len(eo)] = "ok" THEN Put(@, mid, content) ELSE @]

\* flushMessage held back by the throttle interval
FlushPlan_throttled(W, mid, force) ==
  LET has == mid \in DOMAIN W.bufs /\ IsSome(W.bufs[mid].platformMsgId)
      content == IF has THEN buildDisplayContent(W.bufs[mid]) ELSE <<>>
      hash == simpleHash(content)
  IN [content |-> content, hash |-> hash,
      edits |-> /\ has
                /\ ~IsBlank(content)
                /\ shouldFlushNow(W.bufs[mid], W.now)
                /\ (force \/ W.bufs[mid].lastDisplayHash # Some(hash))]

\* flushMessage(mid, force) up to the edit: the content rendered, its hash, and
\* whether the early returns are passed and the edit is issued
FlushPlan(W, mid, force) ==
  LET has == mid \in DOMAIN W.bufs /\ IsSome(W.bufs[mid].platformMsgId)
      content == IF has THEN buildDisplayContent(W.bufs[mid]) ELSE <<>>
      hash == simpleHash(content)
  IN [content |-> content, hash |-> hash,
      edits |-> /\ has
                /\ ~IsBlank(content)
                /\ (force \/ W.bufs[mid].lastDisplayHash # Some(hash))]

\* the rest of flushMessage: the hash is recorded before the edit and whatever the edit
\* reports; `.catch(() => {})` keeps an exception of the edit inside
FlushWith(W, mid, force, plan, eo) ==
  IF ~plan.edits THEN W
  ELSE safeEditWithRetry([W EXCEPT !.bufs[mid].lastDisplayHash = Some(plan.hash)],
                         mid, plan.content, force, eo)

\* flushMessage(adapter, chatId, messageId, force)
flushMessage(W, mid, force, eo) == FlushWith(W, mid, force, FlushPlan(W, mid, force), eo)

\* the outcomes to choose from for a flushMessage call: one when it issues no edit
PlanChoices(plan) == IF plan.edits THEN EditOutcomes ELSE { <<>> }
FlushChoices(W, mid, force) == PlanChoices(FlushPlan(W, mid, force))

---------------------------------------------------------------------------
(* handler/index.ts: the event handlers of startGlobalEventListener *)

AdapterKeys == {"feishu"}        \* the adapters registered in the mux

\* `ctx` and `adapter` are both found for the session
Tracked(sid) ==
  /\ sid \in DOMAIN sessionToCtx
  /\ sid \in DOMAIN sessionToAdapterKey
  /\ sessionToAdapterKey[sid] \in AdapterKeys

N_MessageAbortedError == <<"M", "e", "s", "s", "a", "g", "e", "A", "b", "o", "r", "t", "e", "d", "E", "r", "r", "o", "r">>
N_MessageOutputLengthError == <<"M", "e", "s", "s", "a", "g", "e", "O", "u", "t", "p", "u", "t", "L", "e", "n", "g", "t", "h", "E", "r", "r", "o", "r">>
N_APIError == <<"A", "P", "I", "E", "r", "r", "o", "r">>
isAbortedError(err) == err.name = N_MessageAbortedError
isOutputLengthError(err) == err.name = N_MessageOutputLengthError
isApiError(err) == err.name = N_APIError

\* a || b on optional strings
OrElse(a, b) == IF TruthyStr(a) THEN a ELSE b

\* the error branch with one case for every error
MarkError_unsorted(store, mid, err) ==
  markStatus(store, mid, "error", OrElse(err.message, Some(err.name)))

\* the markStatus call of the message.updated error branch
MarkError(store, mid, err) ==
  IF isAbortedError(err)
  THEN markStatus(store, mid, "aborted", OrElse(err.message, Some(<<"a", "b", "o", "r", "t", "e", "d">>)))
  ELSE IF isOutputLengthError(err)
  THEN markStatus(store, mid, "error", Some(<<"o", "u", "t", "p", "u", "t", " ", "t", "o", "o", " ", "l", "o", "n", "g">>))
  ELSE IF isApiError(err)
  THEN markStatus(store, mid, "error", OrElse(err.message, Some(<<"a", "p", "i", " ", "e", "r", "r", "o", "r">>)))
  ELSE markStatus(store, mid, "error",
                  OrElse(err.message, OrElse(Some(err.name), Some(<<"e", "r", "r", "o", "r">>))))

\* message.updated, up to the flush: records the role, rebinds the active message
\* and marks the terminal status
MessageUpdatedFlushes(info) ==
  /\ info.role = "assistant" /\ Tracked(info.sessionID)
  /\ (IsSome(info.error) \/ TruthyStr(info.finish) \/ TruthyNum(info.completed))
MessageUpdatedMark(store, info) ==
  IF IsSome(info.error) THEN MarkError(store, info.id, Val(info.error))
  ELSE IF TruthyStr(info.finish) \/ TruthyNum(info.completed)
  THEN markStatus(store, info.id, "done", OrElse(info.finish, Some(<<"c", "o", "m", "p", "l", "e", "t", "e", "d">>)))
  ELSE store
MessageUpdatedPre(W, info) ==
  LET W0 == [W EXCEPT !.role = Put(@, info.id, info.role)]
  IN IF info.role = "assistant" /\ Tracked(info.sessionID)
     THEN [W0 EXCEPT !.active = Put(@, info.sessionID, info.id),
                     !.bufs = MessageUpdatedMark(@, info)]
     ELSE W0

\* message.part.updated: the routing guards
PartRouted_anyRole(W, sid, mid) == IsSome(sid) /\ IsSome(mid) /\ Tracked(Val(sid))
PartRouted(W, sid, mid) ==
  /\ IsSome(sid) /\ IsSome(mid)
  /\ ~(Val(mid) \in DOMAIN W.role /\ W.role[Val(mid)] = "user")
  /\ Tracked(Val(sid))

\* the session switches to a new active message: the previous one is marked done
PartSwitches(W, sid, mid) == sid \in DOMAIN W.active /\ W.active[sid] # mid
PartSwitchMark_unmarked(W, sid, mid) == W
PartSwitchMark(W, sid, mid) ==
  IF PartSwitches(W, sid, mid)
  THEN [W EXCEPT !.bufs = markStatus(@, W.active[sid], "done", None)]
  ELSE W

\* step-finish marks the buffer done only while it is streaming
StepFinishMark(store, mid, part) ==
  IF part.type = "step-finish" /\ store[mid].status = "streaming"
  THEN markStatus(store, mid, "done", OrElse(part.reason, Some(<<"s", "t", "e", "p", "-", "f", "i", "n", "i", "s", "h">>)))
  ELSE store

\* from the rebinding of the active message to the flush decision: the part is
\* applied and a step-finish marks the status
PartApply(W, sid, mid, part, delta) ==
  LET W1 == [W EXCEPT !.active = Put(@, sid, mid)]
      b1 == applyPartToBuffer(getOrInitBuffer(W1.bufs, mid), part, delta)
  IN [W1 EXCEPT !.bufs = StepFinishMark(Put(@, mid, b1), mid, part)]

hasAny_always(buffer) == TRUE
hasAny(buffer) ==
  Len(buffer.reasoning) > 0 \/ Len(buffer.text) > 0 \/ Len(buffer.tools) > 0

\* the flush of the part branch up to the write: whether it is due, the content
\* rendered, its hash, and whether the guards are passed and a write is issued
PartPlan(W, mid) ==
  LET b == W.bufs[mid]
      due == shouldFlushNow(b, W.now)
      content == buildDisplayContent(b)
      hash == IF due /\ hasAny(b) THEN simpleHash(content) ELSE <<>>
  IN [due |-> due, content |-> content, hash |-> hash,
      writes |-> /\ due
                 /\ hasAny(b)
                 /\ ~(IsSome(b.platformMsgId) /\ b.lastDisplayHash = Some(hash))]

\* the outcomes to choose from for the write of the part branch
PartChoices(W, mid, plan) ==
  IF ~plan.writes THEN { <<>> }
  ELSE IF IsSome(W.bufs[mid].platformMsgId) THEN EditOutcomes
  ELSE { <<o>> : o \in SendOutcomes }

\* the success of a send records the hash: `buffer.lastDisplayHash = hash`
SentHash_kept(b, hash) == b.lastDisplayHash
SentHash(b, hash) == Some(hash)

\* the history of the unforced flush decisions on a buffer, the last two: the content
\* rendered, the clock at the decision, whether the flush was due, and the
\* transport calls made (how many, how many the platform accepted, whether one failed)
Decided(W, mid, plan, outcome) ==
  LET d == [content |-> plan.content, at |-> W.now, due |-> plan.due,
            calls |-> Len(outcome),
            accepted |-> Cardinality({i \in 1..Len(outcome) : outcome[i] = "ok"}),
            failed |-> \E i \in 1..Len(outcome) : outcome[i] # "ok"]
      old == IF mid \in DOMAIN W.dec THEN W.dec[mid] ELSE <<>>
  IN [W EXCEPT !.dec = Put(@, mid, IF Len(old) = 0 THEN <<d>> ELSE <<old[Len(old)], d>>)]

\* the flush of the part branch: due-ness, content check, hash suppression, then
\* send or edit
PartFlush(W, mid, plan, outcome) ==
  LET b == W.bufs[mid]
      W0 == Decided(W, mid, plan, outcome)
  IN IF ~plan.due \/ ~hasAny(b) THEN W0
     ELSE LET W1 == [W0 EXCEPT !.bufs[mid].lastUpdateTime = W.now] IN
          IF ~plan.writes THEN W1
          ELSE IF ~IsSome(b.platformMsgId)
          THEN LET W2 == [W1 EXCEPT !.calls = Append(@, [op |-> "send", mid |-> mid,
                                                         force |-> FALSE,
                                                         content |-> plan.content,
                                                         at |-> W.now,
                                                         ok |-> outcome[1] = "ok"]),
                              !.threw = Threw(outcome)]
               IN IF outcome[1] = "ok"
                  THEN [W2 EXCEPT !.bufs[mid].platformMsgId = Some(W.nextId),
                                  !.bufs[mid].lastDisplayHash = SentHash(b, plan.hash),
                                  !.nextId = @ + 1,
                                  !.shown = Put(@, mid, plan.content)]
                  ELSE W2
          ELSE LET W2 == [safeEditWithRetry(W1, mid, plan.content, FALSE, outcome)
                            EXCEPT !.threw = Threw(outcome)]
               IN IF outcome[Len(outcome)] = "ok"
                  THEN [W2 EXCEPT !.bufs[mid].lastDisplayHash = Some(plan.hash)]
                  ELSE W2

\* session.error: the markStatus call
SessionErrorMark(store, mid, err) ==
  IF isAbortedError(err)
  THEN markStatus(store, mid, "aborted", OrElse(err.message, Some(<<"a", "b", "o", "r", "t", "e", "d">>)))
  ELSE markStatus(store, mid, "error",
                  OrElse(err.message, OrElse(Some(err.name), Some(<<"s", "e", "s", "s", "i", "o", "n", ".", "e", "r", "r", "o", "r">>))))

\* session.idle: an aborted or error buffer is only flushed
SessionIdleMark_unguarded(store, mid) == markStatus(store, mid, "done", Some(<<"i", "d", "l", "e">>))
SessionIdleMark(store, mid) ==
  IF mid \in DOMAIN store /\ store[mid].status \in {"aborted", "error"}
  THEN store
  ELSE markStatus(store, mid, "done", Some(<<"i", "d", "l", "e">>))

\* the session has context, adapter and an active message
HasActive(W, sid) == Tracked(sid) /\ sid \in DOMAIN W.active

\* no flush of any buffer
flushAll_skipped(W, sids, eos) == W

RECURSIVE flushAll(_, _, _)
\* flushAll(mux): a forced flush of the active message of every session, eos[sid]
\* being the outcome of the edit for sid
flushAll(W, sids, eos) ==
  IF sids = {} THEN W
  ELSE LET sid == CHOOSE x \in sids : TRUE
           W1 == IF Tracked(sid) THEN flushMessage(W, W.active[sid], TRUE, eos[sid]) ELSE W
       IN flushAll(W1, sids \ {sid}, eos)

\* the outcomes to choose from for a flushAll (the flushes are of different buffers)
FlushAllChoices(W) ==
  { eos \in [DOMAIN W.active -> EditOutcomes \cup { <<>> }] :
      \A sid \in DOMAIN W.active :
        eos[sid] \in (IF Tracked(sid) THEN FlushChoices(W, W.active[sid], TRUE) ELSE { <<>> }) }

---------------------------------------------------------------------------
(* The consumer as a state machine *)

MaxElapsed == 1000    \* the clock is explored this far past its initial value
MaxStreamLen == 2     \* longest answer text streamed into a buffer of the consumer
MaxEvents == 3        \* events a loop takes from its streams

SessionIds == {"s1"}            \* the id createSession returns
MessageIds == {"m1", "m2"}

AbortedErr == [name |-> N_MessageAbortedError, message |-> None]
ApiErr == [name |-> N_APIError, message |-> Some(<<"b", "o", "o", "m">>)]
Errors == {AbortedErr, ApiErr}

\* info of a message.updated event: m1 is an assistant message that is under way,
\* has finished or was aborted; u1 is the user's message
Infos ==
  { [id |-> "m1", role |-> "assistant", sessionID |-> sid, error |-> x.error,
     finish |-> x.finish, completed |-> x.completed] :
      sid \in SessionIds,
      x \in { [error |-> None, finish |-> None, completed |-> None],
              [error |-> None, finish |-> Some(<<"s", "t", "o", "p">>), completed |-> None],
              [error |-> Some(AbortedErr), finish |-> None, completed |-> None] } }
  \cup
  { [id |-> "u1", role |-> "user", sessionID |-> sid, error |-> None,
     finish |-> None, completed |-> None] : sid \in SessionIds }

\* part and delta of a message.part.updated event
TextDelta == [part |-> [type |-> "text", text |-> None], delta |-> Some(<<"a">>)]
StreamParts ==
  { TextDelta,
    [part |-> [type |-> "step-finish", reason |-> None], delta |-> None],
    [part |-> [type |-> "step-start"], delta |-> None] }

\* the parts streamed for a message: m2, the follow-up message, gets text only
PartsOf(mid) == IF mid = "m1" THEN StreamParts ELSE {TextDelta}

\* the session and message ids of parts that are not routed: no session id, no
\* message id, or the user's message
Unrouted == { <<None, Some("m1")>>, <<Some("s1"), None>>, <<Some("s1"), Some("u1")>> }

Streaming(l) == loops[l].pc = "streaming" /\ ~shouldStopListener /\ loops[l].seen < MaxEvents

\* the loop has taken one more event; the listener flags stay
Took(l) ==
  /\ loops' = [loops EXCEPT ![l].seen = @ + 1]
  /\ UNCHANGED <<isListenerStarted, shouldStopListener>>

\* the event handler's writes become the new state
Commit(W, e) ==
  /\ W.now <= 1000000 + MaxElapsed
  /\ msgBuffers' = W.bufs
  /\ sessionActiveMsg' = W.active
  /\ msgRole' = W.role
  /\ now' = W.now
  /\ nextId' = W.nextId
  /\ calls' = W.calls
  /\ dec' = W.dec
  /\ shown' = W.shown
  /\ ev' = e
  /\ UNCHANGED <<bufVars, inboundVars, sessionToCtx, sessionCache, sessionToAdapterKey>>

\* The handler is done with the event and the loop goes on to the next one. An
\* exception that left the handler ends the iteration in the catch block of connect():
\* flushAll, then the reconnect timer.
Finish(l, W, e) ==
  IF W.threw
  THEN /\ \E eos \in FlushAllChoices(W) : Commit(flushAll(W, DOMAIN W.active, eos), e)
       /\ loops' = [loops EXCEPT ![l].pc = "backoff",
                                 ![l].delay = ReconnectDelay(loops[l].retryCount),
                                 ![l].retryCount = @ + 1,
                                 ![l].fails = @ + 1,
                                 ![l].seen = @ + 1]
       /\ UNCHANGED <<isListenerStarted, shouldStopListener>>
  ELSE Commit(W, e) /\ Took(l)

\* 1) message.updated with info; e is the record the step leaves in ev
HandleMessageUpdated(l, info, e) ==
  /\ Streaming(l)
  /\ LET W1 == MessageUpdatedPre(World, info)
     IN IF MessageUpdatedFlushes(info)
        THEN LET plan == FlushPlan(W1, info.id, TRUE)
             IN \E eo \in PlanChoices(plan) : Commit(FlushWith(W1, info.id, TRUE, plan, eo), e)
        ELSE Commit(W1, e)
  /\ Took(l)

\* 1) message.updated
OnMessageUpdated(l) ==
  \E info \in Infos :
    HandleMessageUpdated(l, info, [kind |-> "message.updated", sid |-> info.sessionID,
                                   mid |-> info.id, ptype |-> "-"])

\* 2) message.part.updated for a part that is not routed: dropped
OnPartDropped(l) ==
  \E u \in Unrouted, p \in {TextDelta} :
    /\ Streaming(l)
    /\ ~PartRouted(World, u[1], u[2])
    /\ Commit(World, [kind |-> "part.dropped", sid |-> "-", mid |-> "-", ptype |-> p.part.type])
    /\ Took(l)

\* 2) message.part.updated, from the switch of the active message to the write
HandlePart(l, sid, mid, p) ==
  LET switches == PartSwitches(World, sid, mid)
      W0 == PartSwitchMark(World, sid, mid)
      prev == IF switches THEN World.active[sid] ELSE mid
      planPrev == FlushPlan(W0, prev, TRUE)
  IN \E eoPrev \in (IF switches THEN PlanChoices(planPrev) ELSE { <<>> }) :
       LET W1 == IF switches THEN FlushWith(W0, prev, TRUE, planPrev, eoPrev) ELSE W0
           W2 == PartApply(W1, sid, mid, p.part, p.delta)
           plan == PartPlan(W2, mid)
       IN /\ Len(W2.bufs[mid].text) <= MaxStreamLen
          /\ Len(W2.bufs[mid].reasoning) <= MaxReasonLen
          /\ \E o \in PartChoices(W2, mid, plan) :
               Finish(l, PartFlush(W2, mid, plan, o),
                      [kind |-> "part", sid |-> sid, mid |-> mid, ptype |-> p.part.type])

\* 2) message.part.updated for a routed part
OnPart(l) ==
  \E sid \in SessionIds, mid \in MessageIds :
   \E p \in PartsOf(mid) :
    /\ Streaming(l)
    /\ PartRouted(World, Some(sid), Some(mid))
    /\ HandlePart(l, sid, mid, p)

\* the type of error a session.error step records
ErrorType(err) == IF isAbortedError(err) THEN "aborted-type" ELSE "other"

\* 3) session.error
OnSessionError(l) ==
  \E sid \in SessionIds, err \in Errors :
    /\ Streaming(l)
    /\ IF HasActive(World, sid)
       THEN LET mid == World.active[sid]
                W1 == [World EXCEPT !.bufs = SessionErrorMark(@, mid, err)]
                plan == FlushPlan(W1, mid, TRUE)
            IN \E eo \in PlanChoices(plan) :
                 Commit(FlushWith(W1, mid, TRUE, plan, eo),
                        [kind |-> "session.error", sid |-> sid, mid |-> mid,
                         ptype |-> ErrorType(err)])
       ELSE Commit(World, [kind |-> "session.error", sid |-> sid, mid |-> "-",
                           ptype |-> ErrorType(err)])
    /\ Took(l)

\* 4) session.idle
OnSessionIdle(l) ==
  \E sid \in SessionIds :
    /\ Streaming(l)
    /\ IF HasActive(World, sid)
       THEN LET mid == World.active[sid]
                W1 == [World EXCEPT !.bufs = SessionIdleMark(@, mid)]
                plan == FlushPlan(W1, mid, TRUE)
            IN \E eo \in PlanChoices(plan) :
                 Commit(FlushWith(W1, mid, TRUE, plan, eo),
                        [kind |-> "session.idle", sid |-> sid, mid |-> mid, ptype |-> "-"])
       ELSE Commit(World, [kind |-> "session.idle", sid |-> sid, mid |-> "-", ptype |-> "-"])
    /\ Took(l)

\* time passes between two events
Tick ==
  /\ now + 500 <= 1000000 + MaxElapsed
  /\ now' = now + 500
  /\ UNCHANGED <<bufVars, inboundVars, mapVars, listenerVars, nextId, ev, calls, dec, shown>>

---------------------------------------------------------------------------
(* The subscription loop: connect, stream failure, reconnect *)

\* startGlobalEventListener: a second start while started does nothing
StartListener ==
  IF isListenerStarted
  THEN UNCHANGED vars
  ELSE \E l \in LoopIds :
         /\ loops[l].pc = "none"
         /\ \A k \in LoopIds : k < l => loops[k].pc # "none"
         /\ isListenerStarted' = TRUE
         /\ shouldStopListener' = FALSE
         /\ loops' = [loops EXCEPT ![l] = [NoLoop EXCEPT !.pc = "connecting"]]
         /\ ev' = LoopEv("start") /\ calls' = <<>>
         /\ UNCHANGED <<bufVars, inboundVars, mapVars, now, nextId, dec, shown>>

\* `await api.event.subscribe()` returns the stream
SubscribeOk(l) ==
  /\ loops[l].pc = "connecting"
  /\ loops' = [loops EXCEPT ![l].pc = "streaming",
                            ![l].retryCount = 0,
                            ![l].fails = 0]
  /\ ev' = LoopEv("subscribed") /\ calls' = <<>>
  /\ UNCHANGED <<bufVars, inboundVars, mapVars, isListenerStarted, shouldStopListener,
                 now, nextId, dec, shown>>

\* the catch block: after a stop it returns; otherwise flushAll, then the reconnect
\* timer is set with the delay of this failure
Catch(l, cap) ==
  IF shouldStopListener
  THEN /\ loops' = [loops EXCEPT ![l].pc = "ended"]
       /\ ev' = LoopEv("stream.failed") /\ calls' = <<>>
       /\ UNCHANGED <<bufVars, inboundVars, mapVars, isListenerStarted, shouldStopListener,
                      now, nextId, dec, shown>>
  ELSE /\ loops[l].retryCount < cap
       /\ \E eos \in FlushAllChoices(World) :
            Commit(flushAll(World, DOMAIN sessionActiveMsg, eos), LoopEv("stream.failed"))
       /\ loops' = [loops EXCEPT ![l].pc = "backoff",
                                 ![l].delay = ReconnectDelay(loops[l].retryCount),
                                 ![l].retryCount = @ + 1,
                                 ![l].fails = @ + 1]
       /\ UNCHANGED <<isListenerStarted, shouldStopListener>>

\* `await api.event.subscribe()` throws
SubscribeThrows(l, cap) == loops[l].pc = "connecting" /\ Catch(l, cap)

\* iterating the stream throws
StreamThrows(l, cap) == loops[l].pc = "streaming" /\ Catch(l, cap)

\* the stream completes: the loop ends, flushAll, and connect returns
StreamEnds(l) ==
  /\ loops[l].pc = "streaming"
  /\ \E eos \in FlushAllChoices(World) :
       Commit(flushAll(World, DOMAIN sessionActiveMsg, eos), LoopEv("stream.ended"))
  /\ loops' = [loops EXCEPT ![l].pc = "ended"]
  /\ UNCHANGED <<isListenerStarted, shouldStopListener>>

\* the reconnect timer fires: connect() subscribes again
TimerFires(l) ==
  /\ loops[l].pc = "backoff"
  /\ loops' = [loops EXCEPT ![l].pc = "connecting", ![l].delay = 0]
  /\ ev' = LoopEv("timer") /\ calls' = <<>>
  /\ UNCHANGED <<bufVars, inboundVars, mapVars, isListenerStarted, shouldStopListener,
                 now, nextId, dec, shown>>

\* the for-await loop takes an event after a stop: it breaks, flushAll, connect returns
LoopBreak(l) ==
  /\ loops[l].pc = "streaming"
  /\ shouldStopListener
  /\ \E eos \in FlushAllChoices(World) :
       Commit(flushAll(World, DOMAIN sessionActiveMsg, eos), LoopEv("stream.break"))
  /\ loops' = [loops EXCEPT ![l].pc = "ended"]
  /\ UNCHANGED <<isListenerStarted, shouldStopListener>>

\* msgBuffers.clear() while a handler waits for its write: the handler keeps the
\* buffer object, which the map no longer holds
Orphaned(lp) ==
  IF IsSome(lp.write) THEN [lp EXCEPT !.write = Some([Val(@) EXCEPT !.orphan = TRUE])] ELSE lp

\* stopGlobalEventListener
StopListener ==
  /\ shouldStopListener' = TRUE
  /\ isListenerStarted' = FALSE
  /\ sessionToCtx' = EmptyMap
  /\ sessionActiveMsg' = EmptyMap
  /\ msgRole' = EmptyMap
  /\ msgBuffers' = EmptyMap
  /\ sessionCache' = EmptyMap
  /\ sessionToAdapterKey' = EmptyMap
  /\ loops' = [l \in LoopIds |-> Orphaned(loops[l])]
  /\ ev' = LoopEv("stop") /\ calls' = <<>>
  /\ UNCHANGED <<bufVars, inboundVars, now, nextId, dec, shown>>

---------------------------------------------------------------------------
(* createIncomingHandler *)

Chats == {"chatA"}
Upper == <<"A", "B", "C", "D", "E", "F", "G", "H", "I", "J", "K", "L", "M", "N", "O", "P", "Q", "R", "S", "T", "U", "V", "W", "X", "Y", "Z">>
Lower == <<"a", "b", "c", "d", "e", "f", "g", "h", "i", "j", "k", "l", "m", "n", "o", "p", "q", "r", "s", "t", "u", "v", "w", "x", "y", "z">>

\* s.toLowerCase() on ASCII letters
ToLower(s) ==
  [i \in 1..Len(s) |->
     IF \E k \in 1..Len(Upper) : Upper[k] = s[i]
     THEN Lower[CHOOSE k \in 1..Len(Upper) : Upper[k] = s[i]]
     ELSE s[i]]

\* s.trim()
Trim(s) ==
  IF IsBlank(s) THEN <<>>
  ELSE LET a == CHOOSE i \in 1..Len(s) :
                  s[i] \notin WhiteSpace /\ \A j \in 1..(i - 1) : s[j] \in WhiteSpace
           b == CHOOSE i \in 1..Len(s) :
                  s[i] \notin WhiteSpace /\ \A j \in (i + 1)..Len(s) : s[j] \in WhiteSpace
       IN SubSeq(s, a, b)

\* `text.trim().toLowerCase() === 'ping'`
IsPing_exact(text) == text = <<"p", "i", "n", "g">>
IsPing(text) == ToLower(Trim(text)) = <<"p", "i", "n", "g">>

\* the replies of the incoming handler: the acknowledgement of a ping ("U+26A1",
\* "U+FE0F": the two code units of the emoji), and the start of an error reply
Pong == <<"P", "o", "n", "g", "!", " ", "U+26A1", "U+FE0F">>
ErrorReply == <<"U+274C", " ", "E", "r", "r", "o", "r", ":", " ">>

MaxSessions == 3      \* sessions the backend keeps alive at a time

\* createSession: the id of the new session, or no id; the backend numbers them
SessionPool == <<"s1", "s2", "s3", "s4", "s5", "s6">>
SessionName(n) == SessionPool[n]

\* the session ids the bridge holds, and the numbers of the ids it does not hold: the
\* backend answers createSession with an id that is new to the bridge
LiveSessions == DOMAIN sessionToCtx \cup { sessionCache[k] : k \in DOMAIN sessionCache }
FreshSessions == { n \in 1..MaxSessions : SessionName(n) \notin LiveSessions }
FreshSession == SessionName(CHOOSE n \in FreshSessions : \A k \in FreshSessions : n <= k)

\* the handler with no look at the session cache
IncomingHandler_alwaysCreates(adapterKey, chatId, text, senderId, created, promptOk) ==
  LET key == <<adapterKey, chatId>>
      same == [cache |-> sessionCache, toKey |-> sessionToAdapterKey, ctx |-> sessionToCtx,
               createCalled |-> FALSE, promptCalled |-> FALSE, prompted |-> None,
               replied |-> FALSE, reply |-> None]
  IN IF IsPing(text) THEN [same EXCEPT !.replied = TRUE, !.reply = Some(Pong)]
     ELSE LET cached == FALSE
              sessionId == IF cached THEN Some(sessionCache[key]) ELSE created
              cache1 == IF ~cached /\ IsSome(created)
                        THEN Put(sessionCache, key, Val(created)) ELSE sessionCache
          IN IF ~IsSome(sessionId)
             THEN [same EXCEPT !.createCalled = TRUE, !.replied = TRUE,
                               !.reply = Some(ErrorReply)]
             ELSE [cache |-> cache1,
                   toKey |-> Put(sessionToAdapterKey, Val(sessionId), adapterKey),
                   ctx |-> Put(sessionToCtx, Val(sessionId),
                               [chatId |-> chatId, senderId |-> senderId]),
                   createCalled |-> ~cached,
                   promptCalled |-> TRUE,
                   prompted |-> sessionId,
                   replied |-> ~promptOk,
                   reply |-> IF promptOk THEN None ELSE Some(ErrorReply)]

\* The handler's effect on the module state for one inbound message. created: what
\* createSession returns when it is called (an id or nothing); promptOk: whether
\* promptSession returns. The result says which backend calls were made.
IncomingHandler(adapterKey, chatId, text, senderId, created, promptOk) ==
  LET key == <<adapterKey, chatId>>
      same == [cache |-> sessionCache, toKey |-> sessionToAdapterKey, ctx |-> sessionToCtx,
               createCalled |-> FALSE, promptCalled |-> FALSE, prompted |-> None,
               replied |-> FALSE, reply |-> None]
  IN IF IsPing(text) THEN [same EXCEPT !.replied = TRUE, !.reply = Some(Pong)]
     ELSE LET cached == key \in DOMAIN sessionCache
              sessionId == IF cached THEN Some(sessionCache[key]) ELSE created
              cache1 == IF ~cached /\ IsSome(created)
                        THEN Put(sessionCache, key, Val(created)) ELSE sessionCache
          IN IF ~IsSome(sessionId)
             THEN [same EXCEPT !.createCalled = TRUE, !.replied = TRUE,
                               !.reply = Some(ErrorReply)]
             ELSE [cache |-> cache1,
                   toKey |-> Put(sessionToAdapterKey, Val(sessionId), adapterKey),
                   ctx |-> Put(sessionToCtx, Val(sessionId),
                               [chatId |-> chatId, senderId |-> senderId]),
                   createCalled |-> ~cached,
                   promptCalled |-> TRUE,
                   prompted |-> sessionId,
                   replied |-> ~promptOk,
                   reply |-> IF promptOk THEN None ELSE Some(ErrorReply)]

\* what createSession returns, when the handler calls it
CreateOutcomes(adapterKey, chatId, text) ==
  IF IsPing(text) \/ <<adapterKey, chatId>> \in DOMAIN sessionCache
  THEN {None}
  ELSE {None} \cup (IF FreshSessions = {} THEN {} ELSE {Some(FreshSession)})

InboundTexts == { <<"h", "e", "l", "l", "o">>, <<" ", "P", "i", "n", "g">> }

\* an inbound message reaches the handler
Incoming ==
  \E chatId \in Chats, text \in InboundTexts :
   \E created \in CreateOutcomes("feishu", chatId, text), promptOk \in BOOLEAN :
    LET r == IncomingHandler("feishu", chatId, text, "u1", created, promptOk) IN
    /\ sessionCache' = r.cache
    /\ sessionToAdapterKey' = r.toKey
    /\ sessionToCtx' = r.ctx
    /\ UNCHANGED <<bufVars, inboundVars, sessionActiveMsg, msgRole, msgBuffers, listenerVars,
                   now, nextId, ev, calls, dec, shown>>

---------------------------------------------------------------------------
(* feishu/feishu.renderer.ts: parseSections *)

\* s.includes(sub)
Includes(s, sub) ==
  \E i \in 1..(Len(s) - Len(sub) + 1) : SubSeq(s, i, i + Len(sub) - 1) = sub

\* headerRegex, `(##+|\*\*)` at position q: the length of the marker, 0 when none
MarkerLen(md, q) ==
  LET RECURSIVE Hashes(_)
      Hashes(i) == IF i <= Len(md) /\ md[i] = "#" THEN 1 + Hashes(i + 1) ELSE 0
  IN IF Hashes(q) >= 2 THEN Hashes(q)
     ELSE IF q + 1 <= Len(md) /\ md[q] = "*" /\ md[q + 1] = "*" THEN 2
     ELSE 0

\* headerRegex, `(?:^|\n)` in front of a marker: the length of the lead when a match
\* starts at position p, -1 when none does
LeadLen(md, p) ==
  IF p = 1 /\ MarkerLen(md, 1) > 0 THEN 0
  ELSE IF p <= Len(md) /\ md[p] = "\n" /\ MarkerLen(md, p + 1) > 0 THEN 1
  ELSE -1

AtLineEnd(md, q) == q > Len(md) \/ md[q] = "\n"

\* headerRegex, `(?:(?:\*\*|:)?)(?=\n|$)` at position q: the length of the suffix
\* matched, -1 when the title goes on
SuffixLen(md, q) ==
  IF q + 1 <= Len(md) /\ md[q] = "*" /\ md[q + 1] = "*" /\ AtLineEnd(md, q + 2) THEN 2
  ELSE IF q <= Len(md) /\ md[q] = ":" /\ AtLineEnd(md, q + 1) THEN 1
  ELSE IF AtLineEnd(md, q) THEN 0
  ELSE -1

\* the match of headerRegex that starts at position p: index (the position of its
\* first character), title (group 2) and end (the position after its last character)
HeaderMatch(md, p) ==
  LET RECURSIVE SkipSpace(_)
      SkipSpace(i) == IF i <= Len(md) /\ md[i] \in WhiteSpace THEN SkipSpace(i + 1) ELSE i
      RECURSIVE TitleEnd(_)
      TitleEnd(i) == IF SuffixLen(md, i) >= 0 THEN i ELSE TitleEnd(i + 1)
      marker == p + LeadLen(md, p)
      titleStart == SkipSpace(marker + MarkerLen(md, marker))
      titleEnd == TitleEnd(titleStart)
  IN [index |-> p, title |-> SubSeq(md, titleStart, titleEnd - 1),
      end |-> titleEnd + SuffixLen(md, titleEnd)]

RECURSIVE HeaderMatches(_, _)
\* the successive matches of headerRegex in md from position from on
HeaderMatches(md, from) ==
  LET starts == { p \in from..Len(md) : LeadLen(md, p) >= 0 } IN
  IF starts = {} THEN <<>>
  ELSE LET m == HeaderMatch(md, CHOOSE p \in starts : \A k \in starts : p <= k)
       IN <<m>> \o HeaderMatches(md, m.end)

\* the section a title is filed under
SectionOf(title) ==
  LET rawTitle == Trim(ToLower(title)) IN
  IF Includes(rawTitle, <<"t", "h", "i", "n", "k">>) \/ Includes(rawTitle, <<"U+601D">>)
  THEN "thinking"
  ELSE IF \/ Includes(rawTitle, <<"t", "o", "o", "l">>)
          \/ Includes(rawTitle, <<"s", "t", "e", "p">>)
          \/ Includes(rawTitle, <<"U+5DE5", "U+5177">>)
  THEN "tools"
  ELSE IF Includes(rawTitle, <<"s", "t", "a", "t", "u", "s">>)
          \/ Includes(rawTitle, <<"U+72B6", "U+6001">>)
  THEN "status"
  ELSE IF Includes(rawTitle, <<"a", "n", "s", "w", "e", "r">>)
          \/ Includes(rawTitle, <<"U+56DE", "U+7B54">>)
  THEN "answer"
  ELSE "other"

\* thinkingBlockRegex: the length of the leading quote block of md, 0 when md does not
\* start with one
QuoteLen(md) ==
  LET RECURSIVE SkipSpace(_)
      SkipSpace(i) == IF i <= Len(md) /\ md[i] \in WhiteSpace THEN SkipSpace(i + 1) ELSE i
      RECURSIVE BlockEnd(_)
      BlockEnd(i) ==
        IF i > Len(md) THEN i
        ELSE IF md[i] = "\n" /\ i + 1 <= Len(md) /\ md[i + 1] # ">" THEN i
        ELSE BlockEnd(i + 1)
      q == SkipSpace(1)
  IN IF q + 1 <= Len(md) /\ md[q] = ">" /\ md[q + 1] = " "
     THEN BlockEnd(q + 2) - 1
     ELSE 0

RECURSIVE FileSections(_, _, _, _)
\* the while loop of parseSections: the text from each match to the next one is
\* appended to the section of the match's title
FileSections(md, ms, i, sec) ==
  IF i > Len(ms) THEN sec
  ELSE LET endIndex == IF i < Len(ms) THEN ms[i + 1].index ELSE Len(md) + 1
           content == SubSeq(md, ms[i].end, endIndex - 1)
           name == SectionOf(ms[i].title)
           next == CASE name = "thinking" -> [sec EXCEPT !.thinking = @ \o content]
                     [] name = "tools" -> [sec EXCEPT !.tools = @ \o content]
                     [] name = "status" -> [sec EXCEPT !.status = @ \o content]
                     [] name = "answer" -> [sec EXCEPT !.answer = @ \o content]
                     [] OTHER -> [sec EXCEPT !.answer = @ \o <<"\n", "\n", "*", "*">> \o ms[i].title
                                                        \o <<"*", "*", "\n">> \o content]
       IN FileSections(md, ms, i + 1, next)

parseSections(md) ==
  LET quoted == QuoteLen(md) > 0 /\ ~Includes(md, H_Thinking)
      cleanMd == IF quoted THEN SubSeq(md, QuoteLen(md) + 1, Len(md)) ELSE md
      ms == HeaderMatches(cleanMd, 1)
      sec0 == [thinking |-> IF quoted THEN SubSeq(md, 1, QuoteLen(md)) ELSE <<>>,
               answer |-> IF Len(ms) > 0 /\ ms[1].index > 1
                          THEN SubSeq(cleanMd, 1, ms[1].index - 1) ELSE <<>>,
               tools |-> <<>>, status |-> <<>>]
      sec == FileSections(cleanMd, ms, 1, sec0)
  IN IF Len(sec.answer) = 0 /\ Len(sec.thinking) = 0 /\ Len(sec.status) = 0
     THEN [sec EXCEPT !.answer = cleanMd]
     ELSE sec

---------------------------------------------------------------------------
(* SpecBuf: text, reasoning and other parts applied to one buffer *)

Hel == <<"H", "e", "l">>
lo == <<"l", "o">>
Hello == <<"H", "e", "l", "l", "o">>

\* the delta argument of an event: undefined, '' or a fragment
TextDeltas == {None, Some(<<>>), Some(Hel), Some(lo)}
ReasonDeltas == {None, Some(<<>>), Some(<<"a">>)}
\* part.text of an event: undefined, '' or a full snapshot
TextSnaps == {None, Some(<<>>), Some(<<"H", "e">>), Some(Hello)}
ReasonSnaps == {None, Some(<<"b">>), Some(<<"a", "a">>)}

TextEvents ==
  { [part |-> [type |-> "text", text |-> s], delta |-> d] : s \in TextSnaps, d \in TextDeltas }
ReasonEvents ==
  { [part |-> [type |-> "reasoning", text |-> s], delta |-> d] :
      s \in ReasonSnaps, d \in ReasonDeltas }
\* parts applyPartToBuffer does not handle
OtherEvents ==
  { [part |-> [type |-> t], delta |-> None] : t \in {"step-finish", "step-start"} }

\* an event that takes the delta path: a non-empty delta on a text/reasoning part
IsDeltaEvent(e) ==
  e.part.type \in {"text", "reasoning"} /\ IsSome(e.delta) /\ Len(Val(e.delta)) > 0
\* an event that takes the snapshot path
IsSnapshotEvent(e) ==
  e.part.type \in {"text", "reasoning"} /\ ~IsDeltaEvent(e) /\ IsSome(e.part.text)

NoEvent == [part |-> [type |-> "none"], delta |-> None]
NoDcat == [only |-> TRUE, text |-> <<>>, reasoning |-> <<>>]

InitBuf ==
  /\ buf = NewBuffer
  /\ last = NoEvent
  /\ dcat = NoDcat
  /\ InitConsumer

\* the history of the delta-only path: the deltas of each part type concatenated in
\* arrival order, kept for as long as every event so far was a non-empty delta
NextDcat(e) ==
  IF dcat.only /\ IsDeltaEvent(e)
  THEN IF e.part.type = "text"
       THEN [dcat EXCEPT !.text = @ \o Val(e.delta)]
       ELSE [dcat EXCEPT !.reasoning = @ \o Val(e.delta)]
  ELSE [only |-> FALSE, text |-> <<>>, reasoning |-> <<>>]

Apply(e) ==
  LET b == applyPartToBuffer(buf, e.part, e.delta) IN
  /\ Len(b.text) <= MaxTextLen
  /\ Len(b.reasoning) <= MaxReasonLen
  /\ buf' = b
  /\ last' = e
  /\ dcat' = NextDcat(e)
  /\ UNCHANGED consumerVars

ApplyText == \E e \in TextEvents : Apply(e)
ApplyReasoning == \E e \in ReasonEvents : Apply(e)
ApplyOther == \E e \in OtherEvents : Apply(e)

NextBuf == ApplyText \/ ApplyReasoning \/ ApplyOther

SpecBuf == InitBuf /\ [][NextBuf]_vars


\* the accumulated value an event of this part type reads and writes
Accumulated(b, type) == IF type = "reasoning" THEN b.reasoning ELSE b.text

\* C1: no text/reasoning part event, delta or snapshot, makes the answer text or the
\* reasoning text of the buffer shorter than it was before the event.
C1_LengthsNeverDecrease ==
  [][ /\ Len(buf'.text) >= Len(buf.text)
      /\ Len(buf'.reasoning) >= Len(buf.reasoning) ]_vars

\* C1 witness: a text snapshot shorter than the accumulated text was applied after
\* deltas, and a reasoning value is accumulated too.
C1_Witness ==
  /\ IsSnapshotEvent(last) /\ last.part.type = "text"
  /\ Len(Val(last.part.text)) < Len(buf.text)
  /\ Len(Val(last.part.text)) > 0
  /\ Len(buf.reasoning) > 0

\* C2: while every event so far was a non-empty delta, the answer text is the
\* concatenation of the text deltas in arrival order and the reasoning text the
\* concatenation of the reasoning deltas in arrival order.
C2_DeltaOnlyConcatenation ==
  dcat.only => (buf.text = dcat.text /\ buf.reasoning = dcat.reasoning)

\* C2 witness: "Hel" then "lo" arrived as deltas and the answer text is "Hello".
C2_Witness ==
  /\ dcat.only
  /\ last.delta = Some(lo)
  /\ buf.text = Hello
  /\ buf.reasoning = <<"a">>

\* C3: a snapshot event (no non-empty delta) whose snapshot is not longer than the
\* accumulated value of its part type leaves the whole buffer unchanged.
C3_ShortSnapshotIsNoOp ==
  [][ ( /\ IsSnapshotEvent(last')
        /\ Len(Val(last'.part.text)) <= Len(Accumulated(buf, last'.part.type)) )
      => buf' = buf ]_vars

\* C3 witness: a snapshot of the same length as the accumulated text but of other
\* content was applied, and the text is still the accumulated one.
C3_Witness ==
  /\ IsSnapshotEvent(last) /\ last.part.type = "text"
  /\ Len(Val(last.part.text)) = Len(buf.text)
  /\ Val(last.part.text) # buf.text
  /\ Len(buf.text) > 0

---------------------------------------------------------------------------
(* SpecMix: one growing text delivered as deltas, snapshots, or both *)

\* what the backend adds to a text between two events
MixFragments == {<<>>, <<"H">>, Hel, lo}
ReasonFragments == {<<>>, <<"a">>}
\* how an event carries the growth: the added suffix as delta, the full text so far
\* as part.text, or both
MixForms == {"delta", "snapshot", "both"}

\* the event that reports the growth of a text to full by the suffix added
MixEvent(type, form, added, full) ==
  [part |-> [type |-> type, text |-> IF form = "delta" THEN None ELSE Some(full)],
   delta |-> IF form = "snapshot" THEN None ELSE Some(added)]

InitMix ==
  /\ buf = NewBuffer
  /\ last = NoEvent
  /\ dcat = [only |-> FALSE, text |-> <<>>, reasoning |-> <<>>, forms |-> {}]
  /\ InitConsumer

\* the backend's text (or reasoning) grows and the event is applied; dcat holds the
\* backend's full texts and the forms used so far
Feed(type, frags) ==
  \E added \in frags, form \in MixForms :
    LET full == (IF type = "text" THEN dcat.text ELSE dcat.reasoning) \o added
        e == MixEvent(type, form, added, full)
    IN /\ Len(full) <= (IF type = "text" THEN MaxTextLen ELSE MaxReasonLen)
       /\ buf' = applyPartToBuffer(buf, e.part, e.delta)
       /\ last' = e
       /\ dcat' = IF type = "text"
                  THEN [dcat EXCEPT !.text = full, !.forms = @ \cup {form}]
                  ELSE [dcat EXCEPT !.reasoning = full, !.forms = @ \cup {form}]
       /\ UNCHANGED consumerVars

FeedText == Feed("text", MixFragments)
FeedReasoning == Feed("reasoning", ReasonFragments)

NextMix == FeedText \/ FeedReasoning

SpecMix == InitMix /\ [][NextMix]_vars

\* C30: when a text arrives as an in-order mix of delta events and snapshot events
\* describing the same growing text, the accumulated text equals the backend's full
\* text so far after every event; the same for the reasoning text.
C30_MixedFeedTracksBackend ==
  buf.text = dcat.text /\ buf.reasoning = dcat.reasoning

\* "Hello" has arrived in pieces, as deltas, as snapshots and as events with both,
\* the last one a snapshot; a reasoning text has arrived too
C30_Witness ==
  /\ dcat.forms = MixForms
  /\ IsSnapshotEvent(last) /\ last.part.type = "text"
  /\ buf.text = Hello
  /\ Len(buf.reasoning) > 0

---------------------------------------------------------------------------
(* SpecGap: the growing text of SpecMix on a feed that loses events and *)
(* delivers events again                                                 *)

InitGap ==
  /\ buf = NewBuffer
  /\ last = NoEvent
  /\ dcat = [text |-> <<>>, reasoning |-> <<>>, missed |-> FALSE, again |-> FALSE,
             step |-> "none"]
  /\ InitConsumer

BackendText(d, type) == IF type = "text" THEN d.text ELSE d.reasoning
Grown(d, type, full) ==
  IF type = "text" THEN [d EXCEPT !.text = full] ELSE [d EXCEPT !.reasoning = full]
TextLimit(type) == IF type = "text" THEN MaxTextLen ELSE MaxReasonLen

\* the backend's text grows and the event reporting it is applied
Deliver(type, frags) ==
  \E added \in frags, form \in MixForms :
    LET full == BackendText(dcat, type) \o added
        e == MixEvent(type, form, added, full)
        b == applyPartToBuffer(buf, e.part, e.delta)
    IN /\ Len(full) <= TextLimit(type)
       /\ Len(b.text) <= MaxTextLen /\ Len(b.reasoning) <= MaxReasonLen
       /\ buf' = b
       /\ last' = e
       /\ dcat' = [Grown(dcat, type, full) EXCEPT !.step = "delivered"]
       /\ UNCHANGED consumerVars

DeliverText == Deliver("text", MixFragments)
DeliverReasoning == Deliver("reasoning", ReasonFragments)

\* the backend's text grows while the loop is not subscribed (between the failure of
\* the stream and the next subscribe): the event reporting it is never applied
Missed(type, frags) ==
  \E added \in frags :
    LET full == BackendText(dcat, type) \o added IN
    /\ Len(added) > 0
    /\ Len(full) <= TextLimit(type)
    /\ dcat' = [Grown(dcat, type, full) EXCEPT !.missed = TRUE, !.step = "missed"]
    /\ UNCHANGED <<buf, last, consumerVars>>

MissText == Missed("text", MixFragments)
MissReasoning == Missed("reasoning", ReasonFragments)

\* the event applied last is delivered and applied once more
DeliverAgain ==
  LET b == applyPartToBuffer(buf, last.part, last.delta) IN
  /\ last # NoEvent
  /\ Len(b.text) <= MaxTextLen /\ Len(b.reasoning) <= MaxReasonLen
  /\ buf' = b
  /\ dcat' = [dcat EXCEPT !.again = TRUE, !.step = "again"]
  /\ UNCHANGED <<last, consumerVars>>

NextGap == DeliverText \/ DeliverReasoning \/ MissText \/ MissReasoning \/ DeliverAgain

SpecGap == InitGap /\ [][NextGap]_vars

\* C31: once part events of a message were missed or delivered again, the next event
\* that carries the full text of the part makes the accumulated text equal to the
\* backend's full text (the same for the reasoning text).
C31_SnapshotRepairsTheBuffer ==
  [][(dcat.missed \/ dcat.again) /\ dcat'.step = "delivered" /\ IsSome(last'.part.text)
       => Accumulated(buf', last'.part.type) = BackendText(dcat', last'.part.type)]_vars

---------------------------------------------------------------------------
(* SpecTool: tool parts applied to one buffer *)

CallIds == {"c1", "c2"}
bash == <<"b", "a", "s", "h">>
InputA == Some(<< [key |-> <<"a">>, value |-> 1] >>)   \* state.input, present at every status

\* state.output of a completed tool: no output, one line, two lines
ToolOutputs == { <<>>, <<"4", "2">>, <<"7", "\n", "8">> }

\* ToolState of the SDK: the fields each status carries
ToolStates ==
  { [status |-> "pending", input |-> InputA, title |-> None, output |-> None,
     error |-> None, start |-> None, end |-> None] }
  \cup
  { [status |-> "running", input |-> InputA, title |-> t, output |-> None,
     error |-> None, start |-> Some(1), end |-> None] : t \in {None, Some(<<"T">>)} }
  \cup
  { [status |-> "completed", input |-> InputA, title |-> Some(<<"T">>),
     output |-> Some(o), error |-> None, start |-> Some(1), end |-> Some(2)] :
       o \in ToolOutputs }
  \cup
  { [status |-> "error", input |-> InputA, title |-> None, output |-> None,
     error |-> Some(<<"E">>), start |-> Some(1), end |-> Some(2)] }

ToolEvents ==
  { [part |-> [type |-> "tool", callID |-> c, tool |-> bash, state |-> st], delta |-> None] :
      c \in CallIds, st \in ToolStates }

ApplyTool == \E e \in ToolEvents : Apply(e)
ApplyDelta == Apply([part |-> [type |-> "text", text |-> None], delta |-> Some(lo)])

NextTool == ApplyTool \/ ApplyDelta

SpecTool == InitBuf /\ [][NextTool]_vars

TerminalTool == {"completed", "error"}

\* C4: once the view of a call id has status completed or error, no later tool event
\* sets it back to pending or running.
C4_ToolStatusNeverRegresses ==
  [][ \A i \in 1..Len(buf.tools) :
        buf.tools[i].status \in TerminalTool => buf'.tools[i].status \in TerminalTool ]_vars


\* the lines of a rendered content: content.split('\n')
SplitLines(s) ==
  LET RECURSIVE LineEnd(_)
      \* the position of the first line feed at or after i, or the end of s
      LineEnd(i) == IF i > Len(s) \/ s[i] = "\n" THEN i ELSE LineEnd(i + 1)
      RECURSIVE LinesFrom(_)
      LinesFrom(start) ==
        IF LineEnd(start) > Len(s) THEN <<SubSeq(s, start, Len(s))>>
        ELSE <<SubSeq(s, start, LineEnd(start) - 1)>> \o LinesFrom(LineEnd(start) + 1)
  IN LinesFrom(1)

StartsWith(s, p) == Len(s) >= Len(p) /\ SubSeq(s, 1, Len(p)) = p

RECURSIVE UpToEmpty(_, _)
\* the lines ls[i], ls[i+1], ... before the next empty line
UpToEmpty(ls, i) ==
  IF i > Len(ls) \/ ls[i] = <<>> THEN <<>> ELSE <<ls[i]>> \o UpToEmpty(ls, i + 1)

RECURSIVE SectionAfter(_, _, _)
\* the lines of the section of ls under the first line that is the heading, the scan
\* being at line i
SectionAfter(ls, heading, i) ==
  IF i > Len(ls) THEN <<>>
  ELSE IF ls[i] = heading THEN UpToEmpty(ls, i + 1)
  ELSE SectionAfter(ls, heading, i + 1)

\* the lines of the Tools section of a content: those after the line '## Tools' up to
\* the next empty line
ToolsSection(content) == SectionAfter(SplitLines(content), H_Tools, 1)

RECURSIVE BlockFrom(_, _, _)
\* the lines of the k-th tool of a Tools section, the scan being at line i: from the
\* k-th head line '-tool(status)' to the line before the next head line
BlockFrom(sec, k, i) ==
  IF i > Len(sec) THEN <<>>
  ELSE IF StartsWith(sec[i], <<"-">>)
       THEN IF k = 1 THEN <<sec[i]>> \o BlockFrom(sec, 0, i + 1)
            ELSE IF k = 0 THEN <<>>
            ELSE BlockFrom(sec, k - 1, i + 1)
       ELSE IF k = 0 THEN <<sec[i]>> \o BlockFrom(sec, 0, i + 1)
            ELSE BlockFrom(sec, k, i + 1)
ToolBlock(sec, k) == BlockFrom(sec, k, 1)

Fence == <<" ", " ", "U+0060", "U+0060", "U+0060">>
OutputLabel == <<" ", " ", "o", "u", "t", "p", "u", "t", ":">>

\* the block of a tool shows status completed: its head line is '-<tool>(completed)...'
ShowsCompleted(block, tool) ==
  /\ Len(block) > 0
  /\ StartsWith(block[1], <<"-">> \o tool \o <<"(", "c", "o", "m", "p", "l", "e", "t", "e", "d", ")">>)

\* the block of a tool shows the output o: the label, a fence, the lines of o indented
\* by two spaces, a fence
ShowsOutput(block, o) ==
  LET ol == SplitLines(o)
      want == <<OutputLabel, Fence>> \o [i \in 1..Len(ol) |-> <<" ", " ">> \o ol[i]] \o <<Fence>>
  IN \E i \in 1..Len(block) :
       i + Len(want) - 1 <= Len(block) /\ SubSeq(block, i, i + Len(want) - 1) = want
HasOutputLabel(block) == \E i \in 1..Len(block) : block[i] = OutputLabel

\* the view of a call id in a buffer's tools (the first one, should there be several)
ViewsOf(tools, c) == { i \in 1..Len(tools) : tools[i].callID = c }
FirstView(tools, c) == CHOOSE i \in ViewsOf(tools, c) : \A k \in ViewsOf(tools, c) : i <= k

\* the part applied last is a tool part with status completed
CompletedApplied == last.part.type = "tool" /\ last.part.state.status = "completed"

\* the views of the other call ids are as they were, and no view is ever removed
OtherViewsKept ==
  /\ \A i \in 1..Len(buf.tools) :
       \E j \in 1..Len(buf'.tools) :
         /\ buf'.tools[j].callID = buf.tools[i].callID
         /\ (last'.part.type = "tool" /\ last'.part.callID = buf.tools[i].callID)
              \/ buf'.tools[j] = buf.tools[i]
  /\ \A c \in CallIds : Cardinality(ViewsOf(buf'.tools, c)) <= 1

\* what a completed tool part leaves: the view of its call id is completed with its
\* output, and the block of the view in the Tools section shows the status
CompletedOutput == Val(last.part.state.output)
CompletedBlock ==
  ToolBlock(ToolsSection(buildDisplayContent(buf)), FirstView(buf.tools, last.part.callID))
CompletedMerged ==
  /\ ViewsOf(buf.tools, last.part.callID) # {}
  /\ LET v == buf.tools[FirstView(buf.tools, last.part.callID)]
     IN v.status = "completed" /\ v.output = Some(CompletedOutput)
  /\ ShowsCompleted(CompletedBlock, last.part.tool)

\* C35 as stated: after a tool part with status completed and output o is applied for a
\* call id, whatever events preceded it, the view has status completed and output o and
\* the rendered Tools section shows both; the views of other call ids are unchanged and
\* no view is removed.
C35_CompletedToolIsShown ==
  /\ [](CompletedApplied => CompletedMerged /\ ShowsOutput(CompletedBlock, CompletedOutput))
  /\ [][OtherViewsKept]_vars

ShowsOutputIfAny(block, o) ==
  IF Len(o) > 0 THEN ShowsOutput(block, clipTail(o, SAFE_MAX_TOOL_OUTPUT))
  ELSE ~HasOutputLabel(block)

\* C35, amended: ... the view has status completed and output o, the rendered Tools
\* section shows the status, and it shows the output (its last SAFE_MAX_TOOL_OUTPUT
\* characters) when o is not empty; for an empty output it has no output block. The
\* views of other call ids are unchanged and no view is removed.
C35_CompletedToolIsShownIfAny ==
  /\ [](CompletedApplied => CompletedMerged /\ ShowsOutputIfAny(CompletedBlock, CompletedOutput))
  /\ [][OtherViewsKept]_vars

\* c1 went pending, running, completed with output "42", after c2 had completed with a
\* two-line output
C35_Witness ==
  /\ Len(buf.tools) = 2
  /\ buf.tools[1].callID = "c2" /\ buf.tools[1].output = Some(<<"7", "\n", "8">>)
  /\ buf.tools[2].callID = "c1" /\ buf.tools[2].status = "completed"
  /\ buf.tools[2].output = Some(<<"4", "2">>)
  /\ last.part.type = "tool" /\ last.part.callID = "c1"
  /\ last.part.state.status = "completed"

---------------------------------------------------------------------------
(* SpecRender: buffers built from parts and status marks, rendered by     *)
(* buildDisplayContent and taken apart again by parseSections             *)

MaxRenderEvents == 3   \* parts and marks applied to the buffer that is rendered

\* answer text as it streams: plain, and with lines that look like headings
RenderTexts ==
  { <<"H", "i">>,
    <<"\n", "*", "*", "b", "*", "*", " ", "x">>,
    <<"\n", "#", "#", " ", "s", "t", "a", "t", "u", "s", "\n", "y">> }
\* reasoning text as it streams: a letter, a blank
RenderReasonings == { <<"a">>, <<" ">> }
RenderToolStates == { st \in ToolStates : st.status \in {"pending", "completed"} }

RenderParts ==
  { [part |-> [type |-> "text", text |-> None], delta |-> Some(t)] : t \in RenderTexts }
  \cup
  { [part |-> [type |-> "reasoning", text |-> None], delta |-> Some(r)] : r \in RenderReasonings }
  \cup
  { [part |-> [type |-> "tool", callID |-> "c1", tool |-> bash, state |-> st], delta |-> None] :
      st \in RenderToolStates }

RenderMarks ==
  { [status |-> "done", note |-> None],
    [status |-> "error", note |-> Some(<<"b", "o", "o", "m">>)] }

InitRender ==
  /\ buf = NewBuffer
  /\ last = NoEvent
  /\ dcat = [events |-> 0, of |-> None, md |-> <<>>, sections |-> None]
  /\ InitConsumer

\* a part is applied to the buffer
RenderApply ==
  \E e \in RenderParts :
    /\ dcat.events < MaxRenderEvents
    /\ buf' = applyPartToBuffer(buf, e.part, e.delta)
    /\ last' = e
    /\ dcat' = [dcat EXCEPT !.events = @ + 1]
    /\ UNCHANGED consumerVars

\* markStatus on the buffer
RenderMark ==
  \E m \in RenderMarks :
    /\ dcat.events < MaxRenderEvents
    /\ buf' = markStatus([b |-> buf], "b", m.status, m.note)["b"]
    /\ dcat' = [dcat EXCEPT !.events = @ + 1]
    /\ UNCHANGED <<last, consumerVars>>

\* the content of a write: buildDisplayContent(buffer), which the Feishu adapter hands
\* to renderFeishuCardFromHandlerMarkdown
Render ==
  /\ dcat' = [dcat EXCEPT !.of = Some(buf), !.md = buildDisplayContent(buf),
                          !.sections = Some(parseSections(buildDisplayContent(buf)))]
  /\ UNCHANGED <<buf, last, consumerVars>>

NextRender == RenderApply \/ RenderMark \/ Render

SpecRender == InitRender /\ [][NextRender]_vars

Drop(s, n) == SubSeq(s, n + 1, Len(s))
EndsWith(s, p) == Len(s) >= Len(p) /\ SubSeq(s, Len(s) - Len(p) + 1, Len(s)) = p
LF == <<"\n">>

\* the Status section of buffer b: its heading and one line with the status and any note
StatusSection(b) ==
  H_Status \o LF \o StatusText(b.status)
    \o (IF Len(b.statusNote) > 0 THEN <<":", " ">> \o b.statusNote ELSE <<>>)

\* md is made of the sections of b in the order Answer, Thinking, Tools, Status: the
\* Answer section with the answer text first; then a Thinking section with the
\* reasoning text exactly when that is not blank; then a Tools section exactly when
\* b has a tool view; the Status section last
InSectionOrder(md, b) ==
  LET answer == H_Answer \o LF \o b.text \o LF \o LF
      thinking == H_Thinking \o LF \o b.reasoning \o LF \o LF
      hasThinking == ~IsBlank(b.reasoning)
      afterAnswer == Drop(md, Len(answer))
      afterThinking == IF hasThinking THEN Drop(afterAnswer, Len(thinking)) ELSE afterAnswer
  IN /\ StartsWith(md, answer)
     /\ hasThinking <=> StartsWith(afterAnswer, H_Thinking \o LF)
     /\ hasThinking => StartsWith(afterAnswer, thinking)
     /\ Len(b.tools) > 0 <=> StartsWith(afterThinking, H_Tools \o LF)
     /\ Len(b.tools) > 0 => /\ StartsWith(afterThinking, H_Tools \o LF \o <<"-">>)
                            /\ EndsWith(afterThinking, LF \o LF \o StatusSection(b))
     /\ Len(b.tools) = 0 => afterThinking = StatusSection(b)

\* C36: the rendered content of every buffer has the Answer section first and the
\* Status section last, the Status section always present with the status and any note;
\* a Thinking section exactly when the reasoning text is not blank, a Tools section
\* exactly when the buffer has a tool view; in the order Answer, Thinking, Tools, Status.
C36_SectionsInFixedOrder ==
  IsSome(dcat.of) => InSectionOrder(dcat.md, Val(dcat.of))

\* a buffer with a blank reasoning text, a tool view and an error note was rendered
C36_Witness ==
  /\ IsSome(dcat.of) /\ Val(dcat.of) = buf
  /\ buf.reasoning = <<" ">> /\ Len(buf.tools) = 1 /\ buf.status = "error"

\* C37: parsing the rendered content recovers the sections the renderer produced: the
\* answer section holds the buffer's (clipped) answer text and the status section holds
\* only the status line, also when the answer text has lines that begin with '##' or
\* '**' or mention status, tool or think.
C37_ParseRecoversSections ==
  IsSome(dcat.of) =>
    LET b == Val(dcat.of)
        sec == Val(dcat.sections)
    IN /\ Trim(sec.answer) = Trim(clipTail(b.text, SAFE_MAX_TEXT))
       /\ Trim(sec.status) = StatusText(b.status)
            \o (IF Len(b.statusNote) > 0 THEN <<":", " ">> \o b.statusNote ELSE <<>>)

---------------------------------------------------------------------------
(* Spec: one consumer loop dispatching events to the handlers *)

Init == InitBuf

Next ==
  \/ StartListener
  \/ Incoming
  \/ Tick
  \/ \E l \in LoopIds :
       \/ SubscribeOk(l)
       \/ OnMessageUpdated(l)
       \/ OnPartDropped(l)
       \/ OnPart(l)
       \/ OnSessionError(l)
       \/ OnSessionIdle(l)

Spec == Init /\ [][Next]_vars

Terminal == {"aborted", "error"}

\* C5: once a buffer is aborted or error, no later completion signal (message.updated
\* with finish or completed, session.idle, step-finish, the switch of the active
\* message) sets it to done.
C5_TerminalNeverBecomesDone ==
  [][ \A m \in DOMAIN msgBuffers :
        msgBuffers[m].status \in Terminal /\ m \in DOMAIN msgBuffers'
          => msgBuffers'[m].status # "done" ]_vars

\* the step handled a session.idle for the session whose active message is m, or a
\* step-finish part of m
IdleOrStepFinish(m) ==
  /\ \E l \in LoopIds : loops'[l].seen = loops[l].seen + 1
  /\ ev'.mid = m
  /\ ev'.kind = "session.idle" \/ (ev'.kind = "part" /\ ev'.ptype = "step-finish")

\* C6: the session.idle handler and the step-finish handler leave status and
\* statusNote of an aborted or error buffer as they are.
C6_IdleAndStepFinishKeepTerminal ==
  [][ \A m \in DOMAIN msgBuffers :
        IdleOrStepFinish(m) /\ msgBuffers[m].status \in Terminal
          => /\ msgBuffers'[m].status = msgBuffers[m].status
             /\ msgBuffers'[m].statusNote = msgBuffers[m].statusNote ]_vars

\* a session.idle has just been handled for an aborted or error buffer, and its
\* forced flush reached the transport
C6_Witness ==
  /\ ev.kind = "session.idle"
  /\ ev.mid \in DOMAIN msgBuffers
  /\ msgBuffers[ev.mid].status \in Terminal
  /\ \E i \in 1..Len(calls) : calls[i].op = "edit" /\ calls[i].force

\* the last two unforced flush decisions on m rendered the same content
SameContentTwice(m) ==
  /\ m \in DOMAIN dec
  /\ Len(dec[m]) = 2
  /\ dec[m][1].content = dec[m][2].content

\* C7 as stated: two consecutive unforced flush decisions with byte-identical content
\* make at most one transport write.
C7_IdenticalContentOneWrite ==
  \A m \in DOMAIN dec :
    SameContentTwice(m) => dec[m][1].calls + dec[m][2].calls <= 1

\* C7, amended: two consecutive unforced flush decisions with byte-identical content
\* make at most one transport write that the platform accepts; a write that fails is
\* made again.
C7_IdenticalContentOneAcceptedWrite ==
  \A m \in DOMAIN dec :
    SameContentTwice(m) => dec[m][1].accepted + dec[m][2].accepted <= 1

\* the first decision wrote, the second was due and rendered the same content: the
\* hash check suppressed its write
C7_Witness ==
  \E m \in DOMAIN dec :
    /\ SameContentTwice(m)
    /\ dec[m][1].accepted = 1
    /\ dec[m][2].due /\ dec[m][2].calls = 0

\* the last two unforced flush decisions on m were made within the update interval
WithinInterval(m) ==
  /\ m \in DOMAIN dec
  /\ Len(dec[m]) = 2
  /\ dec[m][2].at - dec[m][1].at <= UPDATE_INTERVAL

\* the step handled a part event and made an unforced transport write for m
UnforcedWrite(m) ==
  /\ \E l \in LoopIds : loops'[l].seen = loops[l].seen + 1
  /\ ev'.kind = "part" /\ ev'.mid = m
  /\ \E i \in 1..Len(calls') : calls'[i].mid = m /\ ~calls'[i].force

\* an unforced write is of content that differs from the content the platform shows
WritesOnlyChanged ==
  \A m \in MessageIds :
    UnforcedWrite(m) /\ m \in DOMAIN shown => dec'[m][Len(dec'[m])].content # shown[m]

WriteFailed(cs) == \E i \in 1..Len(cs) : ~cs[i].ok

\* C13: a transport write that fails while an event is processed never escapes the
\* event loop: the step that handles the event leaves the loop iterating the same
\* subscription, with no stream failure counted and no reconnect scheduled.
C13_FailedWriteStaysInLoop ==
  [][\A l \in LoopIds :
       loops'[l].seen = loops[l].seen + 1 /\ WriteFailed(calls')
         => /\ loops'[l].pc = "streaming"
            /\ loops'[l].retryCount = loops[l].retryCount
            /\ loops'[l].fails = loops[l].fails
            /\ loops'[l].delay = loops[l].delay]_vars

\* a part event whose send was not accepted has been handled, and the loop is
\* still on its stream
C13_Witness ==
  \E l \in LoopIds :
    /\ loops[l].pc = "streaming"
    /\ ev.kind = "part"
    /\ \E i \in 1..Len(calls) : calls[i].op = "send" /\ ~calls[i].ok

\* the editMessage calls, among the calls cs of a step, that belong to the flush of
\* message mid with the given force
EditsOf(cs, mid, force) ==
  { i \in 1..Len(cs) : cs[i].op = "edit" /\ cs[i].mid = mid /\ cs[i].force = force }

\* C14: when an edit is reported failed, exactly one more edit of the same message
\* with the same content is attempted, 500 ms later; when that one fails too nothing
\* more is attempted for the flush and no error is raised. A flush issues at most
\* two edit calls, and a second one only after a failed first.
C14_OneEditRetry ==
  [][\A mid \in MessageIds, force \in BOOLEAN :
       LET E == EditsOf(calls', mid, force) IN
       E # {} =>
         LET first == CHOOSE i \in E : \A j \in E : i <= j IN
         /\ Cardinality(E) <= 2
         /\ (Cardinality(E) = 2) = ~calls'[first].ok
         /\ \A j \in E \ {first} :
              /\ j = first + 1
              /\ calls'[j].content = calls'[first].content
              /\ calls'[j].at = calls'[first].at + 500
         /\ \A l \in LoopIds : loops'[l].pc = loops[l].pc]_vars

\* a flush whose edit failed and whose one retry failed too
C14_Witness ==
  \E mid \in MessageIds, force \in BOOLEAN :
    LET E == EditsOf(calls, mid, force) IN
    /\ Cardinality(E) = 2
    /\ \A i \in E : ~calls[i].ok
    /\ \E l \in LoopIds : loops[l].pc = "streaming"

\* C17: a session.error for a session with an active message sets the buffer of that
\* message to aborted when the error is of the aborted type and to error otherwise,
\* and triggers exactly one forced flush of it: the step's writes are the forced
\* edit of that message (with its one retry), showing the new status, and the edit
\* is issued whenever the buffer has a platform message, however short the time
\* since the previous flush.
C17_SessionErrorForcesOneFlush ==
  [][ev'.kind = "session.error" /\ ev'.mid # "-"
       /\ (\E l \in LoopIds : loops'[l].seen = loops[l].seen + 1)
       => LET mid == ev'.mid
              E == EditsOf(calls', mid, TRUE)
          IN /\ msgBuffers'[mid].status =
                  (IF ev'.ptype = "aborted-type" THEN "aborted" ELSE "error")
             /\ E = 1..Len(calls')
             /\ Len(calls') <= 2
             /\ \A i \in E : calls'[i].content = buildDisplayContent(msgBuffers'[mid])
             /\ mid \in DOMAIN msgBuffers /\ IsSome(msgBuffers[mid].platformMsgId)
                  => Len(calls') >= 1]_vars

\* an aborted-type session.error has been handled within the throttle interval of
\* the previous flush: the buffer is aborted and the forced edit was accepted
C17_Witness ==
  /\ ev.kind = "session.error" /\ ev.ptype = "aborted-type" /\ ev.mid # "-"
  /\ msgBuffers[ev.mid].status = "aborted"
  /\ Len(calls) = 1 /\ calls[1].ok /\ calls[1].force
  /\ calls[1].at - msgBuffers[ev.mid].lastUpdateTime <= UPDATE_INTERVAL
  /\ shown[ev.mid] = buildDisplayContent(msgBuffers[ev.mid])

\* C18: a flush of a buffer that has content but no platform message issues a send
\* and, when the send succeeds, records the returned id and the hash of the content;
\* this holds for the flush of a part event and for the forced flush of a
\* session.idle or session.error alike.
C18_FlushWithoutPlatformMessageSends ==
  [][ev'.kind \in {"part", "session.idle", "session.error"} /\ ev'.mid # "-"
       /\ (\E l \in LoopIds : loops'[l].seen = loops[l].seen + 1)
       => LET mid == ev'.mid IN
          /\ hasAny(msgBuffers'[mid])
          /\ ~(mid \in DOMAIN msgBuffers /\ IsSome(msgBuffers[mid].platformMsgId))
          => \E i \in 1..Len(calls') :
               /\ calls'[i].op = "send" /\ calls'[i].mid = mid
               /\ calls'[i].content = buildDisplayContent(msgBuffers'[mid])
               /\ calls'[i].ok
                    => /\ IsSome(msgBuffers'[mid].platformMsgId)
                       /\ msgBuffers'[mid].lastDisplayHash = Some(simpleHash(calls'[i].content))]_vars

\* a buffer with content and no platform message: the send of its last part event
\* was not accepted
UnsentHasFailed ==
  \A mid \in DOMAIN msgBuffers :
    hasAny(msgBuffers[mid]) /\ ~IsSome(msgBuffers[mid].platformMsgId)
      => mid \in DOMAIN dec /\ dec[mid][Len(dec[mid])].failed

LastDecision(d, m) == d[m][Len(d[m])]

\* C25: the last-flushed content hash of a buffer is only ever the hash of content the
\* transport accepted, so that after a flush whose write failed the next due flush
\* writes again even when the rendered content is unchanged: a due flush of a part
\* event writes whenever the platform does not show the rendered content.
C25_HashIsOfAcceptedContent ==
  /\ [](\A m \in DOMAIN msgBuffers :
          IsSome(msgBuffers[m].lastDisplayHash)
            => /\ m \in DOMAIN shown
               /\ msgBuffers[m].lastDisplayHash = Some(simpleHash(shown[m])))
  /\ [][\A m \in MessageIds :
          /\ \E l \in LoopIds : loops'[l].seen = loops[l].seen + 1
          /\ ev'.kind = "part" /\ ev'.mid = m
          /\ LastDecision(dec', m).due /\ hasAny(msgBuffers'[m])
          /\ ~(m \in DOMAIN shown /\ shown[m] = LastDecision(dec', m).content)
          => LastDecision(dec', m).calls >= 1]_vars

\* the indices of the calls cs made for message mid
CallsFor(cs, mid) == { i \in 1..Len(cs) : cs[i].mid = mid }

\* C26: when a part arrives for a session whose active message is another message,
\* the buffer of the previous message is marked done and force-flushed before the
\* pointer is rebound and before any write for the new message: the step leaves the
\* previous buffer done and the pointer on the new message, its calls are the forced
\* edit of the previous message (showing it done) followed by the unforced write of
\* the new one, and the forced edit is made whenever the previous buffer has a
\* platform message.
C26_SwitchFlushesPreviousFirst ==
  [][\A sid \in DOMAIN sessionActiveMsg :
       /\ \E l \in LoopIds : loops'[l].seen = loops[l].seen + 1
       /\ ev'.kind = "part" /\ ev'.sid = sid /\ ev'.mid # sessionActiveMsg[sid]
       => LET prev == sessionActiveMsg[sid]
              mid == ev'.mid
          IN /\ prev \in DOMAIN msgBuffers' /\ msgBuffers'[prev].status = "done"
             /\ sessionActiveMsg'[sid] = mid
             /\ CallsFor(calls', prev) = EditsOf(calls', prev, TRUE)
             /\ \A i \in CallsFor(calls', prev) :
                  calls'[i].content = buildDisplayContent(msgBuffers'[prev])
             /\ \A j \in CallsFor(calls', mid) :
                  /\ ~calls'[j].force
                  /\ \A i \in CallsFor(calls', prev) : i < j
             /\ prev \in DOMAIN msgBuffers /\ IsSome(msgBuffers[prev].platformMsgId)
                  => CallsFor(calls', prev) # {}]_vars

\* the session has switched from m1, streaming, to m2: m1 is done, its forced edit
\* was accepted and shows it done, and the send of m2 followed
C26_Witness ==
  /\ ev.kind = "part" /\ ev.mid = "m2"
  /\ "m1" \in DOMAIN msgBuffers /\ msgBuffers["m1"].status = "done"
  /\ Len(calls) = 2
  /\ calls[1].op = "edit" /\ calls[1].mid = "m1" /\ calls[1].force /\ calls[1].ok
  /\ calls[2].op = "send" /\ calls[2].mid = "m2" /\ calls[2].ok
  /\ shown["m1"] = buildDisplayContent(msgBuffers["m1"])
  /\ sessionActiveMsg[ev.sid] = "m2"

\* the buffer has no reasoning text, no answer text and no tool views
IsEmptyBuffer(b) == Len(b.reasoning) = 0 /\ Len(b.text) = 0 /\ Len(b.tools) = 0

\* C28: no transport write is issued for a buffer that has no reasoning text, no
\* answer text and no tool views, whether the flush is forced or not: every call of a
\* step is for a buffer with content, and a buffer without content has no platform
\* message.
C28_NoWriteForEmptyBuffer ==
  /\ [][\A i \in 1..Len(calls') :
          /\ calls'[i].mid \in DOMAIN msgBuffers'
          /\ ~IsEmptyBuffer(msgBuffers'[calls'[i].mid])]_vars
  /\ [](\A m \in DOMAIN msgBuffers :
          IsEmptyBuffer(msgBuffers[m]) => ~IsSome(msgBuffers[m].platformMsgId))

\* a session.idle has been handled for an active message whose buffer is empty: it is
\* done, and its forced flush wrote nothing
C28_Witness ==
  /\ ev.kind = "session.idle" /\ ev.mid \in DOMAIN msgBuffers
  /\ IsEmptyBuffer(msgBuffers[ev.mid])
  /\ msgBuffers[ev.mid].status = "done"
  /\ calls = <<>>

\* C29: a buffer whose status is done never changes to aborted or error, and no
\* buffer returns to streaming once it has left it.
C29_StatusIsTerminal ==
  [][\A m \in DOMAIN msgBuffers :
       m \in DOMAIN msgBuffers'
         => /\ msgBuffers[m].status = "done"
                 => msgBuffers'[m].status \notin {"aborted", "error"}
            /\ msgBuffers[m].status # "streaming"
                 => msgBuffers'[m].status # "streaming"]_vars

---------------------------------------------------------------------------
(* SpecDeleted: the consumer with session.deleted events on its stream *)

\* 5) session.deleted: no branch of the event loop takes this event type, the loop
\* goes on to the next event
OnSessionDeleted(l) ==
  \E sid \in SessionIds :
    /\ Streaming(l)
    /\ Commit(World, [kind |-> "session.deleted", sid |-> sid, mid |-> "-", ptype |-> "-"])
    /\ Took(l)

NextDeleted ==
  \/ Next
  \/ \E l \in LoopIds : OnSessionDeleted(l)

SpecDeleted == Init /\ [][NextDeleted]_vars

\* C20: on session.deleted for a tracked session the buffer of the active message
\* is marked done if it is still streaming and is force-flushed, then the session is
\* removed from the maps of the router; an event that names a session the maps do
\* not hold changes no buffer and makes no transport write.
C20_DeletedSessionIsRemoved ==
  [][(\E l \in LoopIds : loops'[l].seen = loops[l].seen + 1)
       => /\ ev'.kind = "session.deleted" /\ Tracked(ev'.sid)
               => /\ ev'.sid \notin DOMAIN sessionToCtx'
                  /\ ev'.sid \notin DOMAIN sessionActiveMsg'
                  /\ ev'.sid \in DOMAIN sessionActiveMsg
                       => LET mid == sessionActiveMsg[ev'.sid] IN
                          /\ mid \in DOMAIN msgBuffers /\ msgBuffers[mid].status = "streaming"
                               => msgBuffers'[mid].status = "done"
                          /\ mid \in DOMAIN msgBuffers /\ IsSome(msgBuffers[mid].platformMsgId)
                               => EditsOf(calls', mid, TRUE) # {}
          /\ ev'.sid # "-" /\ ~Tracked(ev'.sid)
               => msgBuffers' = msgBuffers /\ calls' = <<>>]_vars

---------------------------------------------------------------------------
(* SpecConn: the subscription loop connecting, failing, backing off *)

MaxFailures == 13     \* stream failures in a row explored by SpecConn

NextConn ==
  \/ StartListener
  \/ StopListener
  \/ Incoming
  \/ Tick
  \/ \E l \in LoopIds :
       \/ SubscribeOk(l)
       \/ SubscribeThrows(l, MaxFailures)
       \/ StreamThrows(l, MaxFailures)
       \/ StreamEnds(l)
       \/ LoopBreak(l)
       \/ TimerFires(l)

SpecConn == Init /\ [][NextConn]_vars

\* C10: after N consecutive stream failures (N >= 1) the delay before the next
\* connection attempt is min(5000 * N, 60000) ms, and a successful subscribe resets
\* the failure count to 0, so that the next failure waits 5000 ms again.
C10_BackoffDelay ==
  \A l \in LoopIds :
    /\ loops[l].pc = "backoff"
         => loops[l].fails >= 1 /\ loops[l].delay = Min(5000 * loops[l].fails, 60000)
    /\ loops[l].pc = "streaming" => loops[l].retryCount = 0
    /\ loops[l].pc = "backoff" /\ loops[l].fails = 1 => loops[l].delay = 5000

\* the thirteenth failure in a row: the delay has reached the cap
C10_Witness ==
  \E l \in LoopIds :
    loops[l].pc = "backoff" /\ loops[l].fails = 13 /\ loops[l].delay = 60000

\* C11: the consumer never stops consuming except on explicit stop. While stop has
\* not been requested, a loop whose event stream has ended, by a failure or by
\* completing, has a new subscription attempt ahead of it: connect() has never
\* returned without a reconnect timer being set.
C11_ResubscribesUnlessStopped ==
  \A l \in LoopIds : loops[l].pc = "ended" => shouldStopListener

\* C12: after stop is requested no loop initiates a subscription (a reconnect timer
\* that was pending at the stop does not re-subscribe), no reconnect is scheduled and
\* no event is dispatched.
C12_NoSubscriptionAfterStop ==
  [][shouldStopListener /\ shouldStopListener'
       => \A l \in LoopIds :
            /\ loops'[l].pc = "connecting" => loops[l].pc = "connecting"
            /\ loops'[l].pc = "backoff" => loops[l].pc = "backoff"
            /\ loops'[l].seen = loops[l].seen]_vars

---------------------------------------------------------------------------
(* SpecSession: conversations and the session cache *)

Convs == {"chatA", "chatB"}
\* promptSession: it returns, it fails with the backend's "not found" (status 404),
\* or it fails otherwise
PromptResults == {"ok", "notfound", "failed"}

\* an inbound message of a conversation is handled by the incoming handler; the
\* step records the conversation, the backend calls and the session prompted
HandleIncoming ==
  \E chatId \in Convs, text \in InboundTexts, result \in PromptResults :
   \E created \in {None} \cup (IF FreshSessions = {} THEN {} ELSE {Some(FreshSession)}) :
    LET r == IncomingHandler("feishu", chatId, text, "u1", created, result = "ok") IN
    /\ sessionCache' = r.cache
    /\ sessionToAdapterKey' = r.toKey
    /\ sessionToCtx' = r.ctx
    /\ ev' = [kind |-> "incoming", chat |-> chatId, ping |-> IsPing(text),
              text |-> text, reply |-> r.reply,
              createCalled |-> r.createCalled, created |-> created,
              prompted |-> r.prompted,
              result |-> IF r.promptCalled THEN result ELSE "-"]
    /\ calls' = <<>>
    /\ UNCHANGED <<bufVars, inboundVars, sessionActiveMsg, msgRole, msgBuffers, listenerVars,
                   now, nextId, dec, shown>>

NextSession ==
  \/ HandleIncoming
  \/ StartListener
  \/ StopListener

SpecSession == Init /\ [][NextSession]_vars

CacheKey(chatId) == <<"feishu", chatId>>

\* C15: when a prompt call for a conversation fails with the backend's "not found",
\* the session cache entry of the conversation is evicted, and the next non-ping
\* message of the conversation calls createSession and is prompted on another
\* session id.
C15_NotFoundEvicts ==
  [][/\ ev'.kind = "incoming" /\ ev'.result = "notfound"
          => CacheKey(ev'.chat) \notin DOMAIN sessionCache'
     /\ /\ ev.kind = "incoming" /\ ev.result = "notfound"
        /\ ev'.kind = "incoming" /\ ev'.chat = ev.chat /\ ~ev'.ping
          => /\ ev'.createCalled
             /\ ev'.prompted # ev.prompted]_vars

\* C16: for one (adapter, conversation) pair successive non-ping messages are
\* prompted on the same session id. createSession is called exactly when no id is
\* cached for the pair; an id it returns is cached and prompted; a cached id is the
\* one prompted; and a cached id stays until the cache is cleared.
C16_CachedSessionReused ==
  [][/\ ev'.kind = "incoming" =>
          LET key == CacheKey(ev'.chat) IN
          /\ ev'.createCalled = (~ev'.ping /\ key \notin DOMAIN sessionCache)
          /\ key \in DOMAIN sessionCache /\ ~ev'.ping
               => ev'.prompted = Some(sessionCache[key])
          /\ ev'.createCalled /\ IsSome(ev'.created)
               => /\ ev'.prompted = ev'.created
                  /\ key \in DOMAIN sessionCache' /\ sessionCache'[key] = Val(ev'.created)
          /\ IsSome(ev'.prompted) => sessionCache'[key] = Val(ev'.prompted)
     /\ \A k \in DOMAIN sessionCache :
          \/ k \in DOMAIN sessionCache' /\ sessionCache'[k] = sessionCache[k]
          \/ ev'.kind = "stop" /\ sessionCache' = EmptyMap]_vars

\* a second non-ping message of a conversation has been prompted on the session id
\* cached by the first, with no createSession call, while the other conversation has
\* a session of its own
C16_Witness ==
  /\ ev.kind = "incoming" /\ ~ev.ping /\ ~ev.createCalled
  /\ ev.prompted = Some(sessionCache[CacheKey(ev.chat)])
  /\ \E c \in Convs \ {ev.chat} :
       /\ CacheKey(c) \in DOMAIN sessionCache
       /\ sessionCache[CacheKey(c)] # sessionCache[CacheKey(ev.chat)]

\* C21: an inbound message whose trimmed, lower-cased body is "ping" is answered with
\* the fixed acknowledgement and causes no createSession call, no promptSession call
\* and no change to the session cache or to the session context maps.
C21_PingBypassesBackend ==
  [][ev'.kind = "incoming" /\ ToLower(Trim(ev'.text)) = <<"p", "i", "n", "g">>
       => /\ ev'.reply = Some(Pong)
          /\ ~ev'.createCalled
          /\ ev'.prompted = None /\ ev'.result = "-"
          /\ sessionCache' = sessionCache
          /\ sessionToCtx' = sessionToCtx
          /\ sessionToAdapterKey' = sessionToAdapterKey]_vars

\* " Ping" has been answered in a conversation that has a cached session, and in one
\* that has none
C21_Witness ==
  /\ ev.kind = "incoming" /\ ev.text = <<" ", "P", "i", "n", "g">>
  /\ ev.reply = Some(Pong)
  /\ \E c \in Convs : CacheKey(c) \in DOMAIN sessionCache
  /\ \E c \in Convs : CacheKey(c) \notin DOMAIN sessionCache

---------------------------------------------------------------------------
(* SpecFail: the consumer up to a failure of the stream it iterates *)

\* the events on the stream are message.updated and routed parts; the loop is
\* followed up to the reconnect timer its catch block sets
NextFail ==
  \/ StartListener
  \/ Incoming
  \/ Tick
  \/ \E l \in LoopIds :
       \/ SubscribeOk(l)
       \/ OnMessageUpdated(l)
       \/ OnPart(l)
       \/ StreamThrows(l, MaxFailures)

SpecFail == Init /\ [][NextFail]_vars

\* the step is the catch block of loop l after its stream failed
StreamFailed(l) == loops[l].pc = "streaming" /\ ev'.kind = "stream.failed"

---------------------------------------------------------------------------
(* SpecRoute: part events with and without session id and message id, for *)
(* bound and unbound sessions, for assistant and user messages            *)

PartSessions == {None, Some("s1")}
PartMessages == {None, Some("m1"), Some("u1")}

IdOr(o) == IF IsSome(o) THEN Val(o) ELSE "-"

\* 2) message.part.updated: the routing guards, then the handling
OnAnyPart(l) ==
  \E sid \in PartSessions, mid \in PartMessages :
    /\ Streaming(l)
    /\ IF PartRouted(World, sid, mid)
       THEN HandlePart(l, Val(sid), Val(mid), TextDelta)
       ELSE /\ Commit(World, [kind |-> "part.dropped", sid |-> IdOr(sid), mid |-> IdOr(mid),
                              ptype |-> "text"])
            /\ Took(l)

NextRoute ==
  \/ StartListener
  \/ Incoming
  \/ Tick
  \/ \E l \in LoopIds :
       \/ SubscribeOk(l)
       \/ OnMessageUpdated(l)
       \/ OnAnyPart(l)

SpecRoute == Init /\ [][NextRoute]_vars

\* the part event e names no session or no message, or a session without bound
\* context or adapter, or a message recorded with role user
Unroutable(e) ==
  \/ e.sid = "-" \/ e.mid = "-"
  \/ e.sid \notin DOMAIN sessionToCtx
  \/ e.sid \notin DOMAIN sessionToAdapterKey
  \/ sessionToAdapterKey[e.sid] \notin AdapterKeys
  \/ (e.mid \in DOMAIN msgRole /\ msgRole[e.mid] = "user")

\* C33: a part event that is unroutable, or that belongs to a message recorded with
\* role user, creates no buffer, changes no buffer and no active-message pointer, and
\* issues no transport write.
C33_UnroutablePartChangesNothing ==
  [][\A l \in LoopIds :
       /\ loops'[l].seen = loops[l].seen + 1
       /\ ev'.kind \in {"part", "part.dropped"}
       /\ Unroutable(ev')
       => /\ msgBuffers' = msgBuffers
          /\ sessionActiveMsg' = sessionActiveMsg
          /\ calls' = <<>>]_vars

\* a part of the user's message was dropped while the session had a buffer with a
\* platform message and an active message
C33_Witness ==
  /\ ev.kind = "part.dropped" /\ ev.sid = "s1" /\ ev.mid = "u1"
  /\ Tracked("s1")
  /\ "s1" \in DOMAIN sessionActiveMsg
  /\ "m1" \in DOMAIN msgBuffers /\ IsSome(msgBuffers["m1"].platformMsgId)

---------------------------------------------------------------------------
(* SpecErr: message.updated events that carry each kind of error *)

N_UnknownError == <<"U", "n", "k", "n", "o", "w", "n", "E", "r", "r", "o", "r">>
boom == <<"b", "o", "o", "m">>

\* info.error: its name and data.message, which a backend error may lack
ErrorNames == {N_MessageAbortedError, N_MessageOutputLengthError, N_APIError, N_UnknownError}
ErrorKinds == { [name |-> n, message |-> m] : n \in ErrorNames, m \in {None, Some(boom)} }

\* 1) message.updated of the assistant message m1 with an error
OnMessageError(l) ==
  \E sid \in SessionIds, err \in ErrorKinds :
    HandleMessageUpdated(l,
      [id |-> "m1", role |-> "assistant", sessionID |-> sid, error |-> Some(err),
       finish |-> None, completed |-> None],
      [kind |-> "message.updated", sid |-> sid, mid |-> "m1", ptype |-> "-", error |-> err])

NextErr ==
  \/ StartListener
  \/ Incoming
  \/ \E l \in LoopIds :
       \/ SubscribeOk(l)
       \/ OnPart(l)
       \/ OnMessageError(l)

SpecErr == Init /\ [][NextErr]_vars

\* a step that handles a message.updated event with an error for a tracked session
ErrorStep(l) ==
  /\ loops'[l].seen = loops[l].seen + 1
  /\ ev'.kind = "message.updated" /\ "error" \in DOMAIN ev'
  /\ Tracked(ev'.sid)

\* the step's calls are one forced flush of mid: nothing when the buffer has no
\* platform message, otherwise one forced edit with the buffer's render, tried a
\* second time when the first try was not accepted
OneForcedFlush(mid) ==
  LET b == msgBuffers'[mid] IN
  /\ \A i \in 1..Len(calls') :
       /\ calls'[i].op = "edit" /\ calls'[i].mid = mid /\ calls'[i].force
       /\ calls'[i].content = buildDisplayContent(b)
  /\ Len(calls') = (IF ~IsSome(b.platformMsgId) THEN 0
                    ELSE IF calls'[1].ok THEN 1 ELSE 2)

note_aborted == <<"a", "b", "o", "r", "t", "e", "d">>
note_tooLong == <<"o", "u", "t", "p", "u", "t", " ", "t", "o", "o", " ", "l", "o", "n", "g">>
note_apiError == <<"a", "p", "i", " ", "e", "r", "r", "o", "r">>

\* C34 as stated: aborted error -> status aborted; output-too-long error -> status
\* error with the fixed note; API error -> status error with the backend's message;
\* any other error -> status error with the error's name as note; one forced flush
\* follows in every case.
C34_ErrorMappingByName ==
  [][\A l \in LoopIds : ErrorStep(l) =>
       LET err == ev'.error
           b == msgBuffers'[ev'.mid]
       IN /\ CASE err.name = N_MessageAbortedError -> b.status = "aborted"
               [] err.name = N_MessageOutputLengthError ->
                    b.status = "error" /\ b.statusNote = note_tooLong
               [] err.name = N_APIError ->
                    b.status = "error" /\ (IsSome(err.message) => b.statusNote = Val(err.message))
               [] OTHER -> b.status = "error" /\ b.statusNote = err.name
          /\ OneForcedFlush(ev'.mid)]_vars

\* C34, amended: aborted error -> status aborted, with the backend's message or
\* 'aborted' as note; output-too-long error -> status error with the fixed note; API
\* error -> status error with the backend's message, or 'api error' when it has none;
\* any other error -> status error with the backend's message, or the error's name
\* when it has none; one forced flush follows in every case.
C34_ErrorMapping ==
  [][\A l \in LoopIds : ErrorStep(l) =>
       LET err == ev'.error
           b == msgBuffers'[ev'.mid]
           msgOr(d) == IF IsSome(err.message) THEN Val(err.message) ELSE d
       IN /\ CASE err.name = N_MessageAbortedError ->
                    b.status = "aborted" /\ b.statusNote = msgOr(note_aborted)
               [] err.name = N_MessageOutputLengthError ->
                    b.status = "error" /\ b.statusNote = note_tooLong
               [] err.name = N_APIError ->
                    b.status = "error" /\ b.statusNote = msgOr(note_apiError)
               [] OTHER -> b.status = "error" /\ b.statusNote = msgOr(err.name)
          /\ OneForcedFlush(ev'.mid)]_vars

\* an error that is none of the three named ones and carries a message was mapped for
\* a buffer with a platform message, and the forced edit was retried
C34_Witness ==
  /\ ev.kind = "message.updated" /\ "error" \in DOMAIN ev
  /\ ev.error = [name |-> N_UnknownError, message |-> Some(boom)]
  /\ "m1" \in DOMAIN msgBuffers
  /\ msgBuffers["m1"].status = "error" /\ msgBuffers["m1"].statusNote = boom
  /\ Len(calls) = 2 /\ calls[2].force

---------------------------------------------------------------------------
(* SpecLoops: start, stop and start again; the part handler split at its await *)

\* the events of this specification: text deltas of one message of the session
LoopParts == {TextDelta}
LoopMessages == {"m1"}

\* the write a part handler has issued and awaits: send or edit, the message, the
\* platform message id passed to an edit, the content, its hash, and whether the
\* buffer object has left the map since
PartWrite(b, mid, plan) ==
  [op |-> IF IsSome(b.platformMsgId) THEN "edit" ELSE "send", mid |-> mid,
   pid |-> b.platformMsgId, content |-> plan.content, hash |-> plan.hash,
   orphan |-> FALSE]

\* the results to choose from for a write in flight
WriteChoices(w) == IF w.op = "send" THEN { <<o>> : o \in SendOutcomes } ELSE EditOutcomes

\* 2) message.part.updated, from the top of the loop body to the await of the write
\* (or to `continue` when nothing is written). The session does not switch messages:
\* the events are parts of one message.
PartBegin(l) ==
  \E sid \in SessionIds, mid \in LoopMessages, p \in LoopParts :
    /\ Streaming(l)
    /\ PartRouted(World, Some(sid), Some(mid))
    /\ ~PartSwitches(World, sid, mid)
    /\ LET W2 == PartApply(World, sid, mid, p.part, p.delta)
           plan == PartPlan(W2, mid)
           e == [kind |-> "part", sid |-> sid, mid |-> mid, ptype |-> p.part.type]
       IN /\ Len(W2.bufs[mid].text) <= MaxStreamLen
          /\ IF plan.writes
             THEN /\ Commit([W2 EXCEPT !.bufs[mid].lastUpdateTime = W2.now], e)
                  /\ loops' = [loops EXCEPT
                                 ![l].pc = "writing",
                                 ![l].seen = @ + 1,
                                 ![l].write = Some(PartWrite(W2.bufs[mid], mid, plan))]
                  /\ UNCHANGED <<isListenerStarted, shouldStopListener>>
             ELSE Commit(PartFlush(W2, mid, plan, <<>>), e) /\ Took(l)

\* the continuation of the part handler when its write returns: a send that
\* succeeded stores the id and the hash in the buffer object, an edit that succeeded
\* the hash
PartEnd(l) ==
  /\ loops[l].pc = "writing"
  /\ LET w == Val(loops[l].write) IN
     \E o \in WriteChoices(w) :
       LET ok == o[Len(o)] = "ok"
           called == IF w.op = "send"
                     THEN << [op |-> "send", mid |-> w.mid, force |-> FALSE,
                              content |-> w.content, at |-> now, ok |-> ok] >>
                     ELSE EditCalls(w.mid, w.content, FALSE, o, now)
           W1 == [World EXCEPT !.calls = called,
                               !.now = @ + 500 * (Len(o) - 1),
                               !.nextId = IF w.op = "send" /\ ok THEN @ + 1 ELSE @,
                               !.shown = IF ok THEN Put(@, w.mid, w.content) ELSE @]
           W2 == IF ~ok \/ w.orphan THEN W1
                 ELSE IF w.op = "send"
                 THEN [W1 EXCEPT !.bufs[w.mid].platformMsgId = Some(nextId),
                                 !.bufs[w.mid].lastDisplayHash = Some(w.hash)]
                 ELSE [W1 EXCEPT !.bufs[w.mid].lastDisplayHash = Some(w.hash)]
       IN Commit(W2, [kind |-> "part.written", sid |-> "-", mid |-> w.mid, ptype |-> w.op])
  /\ loops' = [loops EXCEPT ![l].pc = "streaming", ![l].write = None]
  /\ UNCHANGED <<isListenerStarted, shouldStopListener>>

NextLoops ==
  \/ StartListener
  \/ StopListener
  \/ Incoming
  \/ Tick
  \/ \E l \in LoopIds :
       \/ SubscribeOk(l)
       \/ LoopBreak(l)
       \/ PartBegin(l)
       \/ PartEnd(l)

SpecLoops == Init /\ [][NextLoops]_vars

\* the loop dispatches the events its stream delivers: it is in a handler, or it is
\* iterating and the stop flag is not set
Dispatching(l) ==
  \/ loops[l].pc = "writing"
  \/ loops[l].pc = "streaming" /\ ~shouldStopListener

\* C24: at most one consumer loop is subscribed and dispatching events at any time:
\* while the listener is started no further loop is begun, and a stop followed by a
\* start does not leave two loops dispatching into the same maps.
C24_AtMostOneLoopDispatches ==
  /\ [](Cardinality({l \in LoopIds : Dispatching(l)}) <= 1)
  /\ [][isListenerStarted
          => \A l \in LoopIds : loops[l].pc = "none" => loops'[l].pc = "none"]_vars

\* the write loop l awaits is for the buffer the map holds for its message
AwaitsWriteOf(l, mid) ==
  /\ loops[l].pc = "writing"
  /\ Val(loops[l].write).mid = mid
  /\ ~Val(loops[l].write).orphan

\* C22: for each message at most one send succeeds. Once the platform message id of a
\* buffer is set it does not change or go back to null, and every later write for
\* the buffer is an edit of that id: no send is under way for a buffer that has an
\* id, and an edit under way carries the buffer's id.
C22_OnePlatformMessagePerBuffer ==
  /\ [][\A m \in DOMAIN msgBuffers :
          IsSome(msgBuffers[m].platformMsgId) /\ m \in DOMAIN msgBuffers'
            => msgBuffers'[m].platformMsgId = msgBuffers[m].platformMsgId]_vars
  /\ [](\A l \in LoopIds, m \in DOMAIN msgBuffers :
          AwaitsWriteOf(l, m) /\ IsSome(msgBuffers[m].platformMsgId)
            => /\ Val(loops[l].write).op = "edit"
               /\ Val(loops[l].write).pid = msgBuffers[m].platformMsgId)

\* C23: at no time are two transport writes in flight for the same buffer.
C23_OneWriteInFlightPerBuffer ==
  \A l1, l2 \in LoopIds, m \in DOMAIN msgBuffers :
    AwaitsWriteOf(l1, m) /\ AwaitsWriteOf(l2, m) => l1 = l2

---------------------------------------------------------------------------
(* SpecRace: invocations of the incoming handler that run concurrently, the *)
(* handler split at its awaits                                              *)

RaceIds == {"i1", "i2", "i3"}     \* inbound message ids

NewTask(chatId) ==
  [chat |-> chatId, pc |-> "reacting", created |-> None, prompted |-> None, failed |-> FALSE]

\* the session is bound to its adapter and chat, and promptSession is called
BindAndPrompt(id, sessionId) ==
  /\ sessionToAdapterKey' = Put(sessionToAdapterKey, sessionId, "feishu")
  /\ sessionToCtx' = Put(sessionToCtx, sessionId,
                         [chatId |-> tasks[id].chat, senderId |-> "u1"])
  /\ tasks' = [tasks EXCEPT ![id].pc = "prompting", ![id].prompted = Some(sessionId)]

\* the transport calls the handler with a non-ping message; the call runs up to
\* `await adapter.addReaction(...)` and the transport does not wait for it
Arrive ==
  \E id \in RaceIds \ DOMAIN tasks, chatId \in Convs :
    /\ tasks' = Put(tasks, id, NewTask(chatId))
    /\ UNCHANGED <<bufVars, mapVars, listenerVars, processedMessageIds, hist, chatQueues,
                   now, nextId, ev, calls, dec, shown>>

\* addReaction has returned: the cache is read; a cached session is bound and
\* prompted, otherwise createSession is called
LookupSession ==
  \E id \in DOMAIN tasks :
    LET key == <<"feishu", tasks[id].chat>> IN
    /\ tasks[id].pc = "reacting"
    /\ IF key \in DOMAIN sessionCache
       THEN BindAndPrompt(id, sessionCache[key])
       ELSE /\ tasks' = [tasks EXCEPT ![id].pc = "creating"]
            /\ UNCHANGED <<sessionToAdapterKey, sessionToCtx>>
    /\ UNCHANGED <<bufVars, sessionActiveMsg, msgRole, msgBuffers, sessionCache, listenerVars,
                   processedMessageIds, hist, chatQueues, now, nextId, ev, calls, dec, shown>>

\* createSession has returned with an id: the id is cached, bound and prompted
CreateReturns ==
  \E id \in DOMAIN tasks :
    /\ tasks[id].pc = "creating"
    /\ FreshSessions # {}
    /\ sessionCache' = Put(sessionCache, <<"feishu", tasks[id].chat>>, FreshSession)
    /\ sessionToAdapterKey' = Put(sessionToAdapterKey, FreshSession, "feishu")
    /\ sessionToCtx' = Put(sessionToCtx, FreshSession,
                           [chatId |-> tasks[id].chat, senderId |-> "u1"])
    /\ tasks' = [tasks EXCEPT ![id].pc = "prompting", ![id].created = Some(FreshSession),
                              ![id].prompted = Some(FreshSession)]
    /\ UNCHANGED <<bufVars, sessionActiveMsg, msgRole, msgBuffers, listenerVars,
                   processedMessageIds, hist, chatQueues, now, nextId, ev, calls, dec, shown>>

\* createSession has returned without an id: 'Failed to init Session' is thrown, the
\* catch block reports it
CreateFails ==
  \E id \in DOMAIN tasks :
    /\ tasks[id].pc = "creating"
    /\ tasks' = [tasks EXCEPT ![id].pc = "done", ![id].failed = TRUE]
    /\ UNCHANGED <<bufVars, mapVars, listenerVars, processedMessageIds, hist, chatQueues,
                   now, nextId, ev, calls, dec, shown>>

\* promptSession has returned or thrown
PromptReturns ==
  \E id \in DOMAIN tasks, ok \in BOOLEAN :
    /\ tasks[id].pc = "prompting"
    /\ tasks' = [tasks EXCEPT ![id].pc = "done", ![id].failed = ~ok]
    /\ UNCHANGED <<bufVars, mapVars, listenerVars, processedMessageIds, hist, chatQueues,
                   now, nextId, ev, calls, dec, shown>>

NextRace == Arrive \/ LookupSession \/ CreateReturns \/ CreateFails \/ PromptReturns

SpecRace == Init /\ [][NextRace]_vars

\* C32: of the inbound messages of one (adapter, conversation) that are handled
\* concurrently while no session is cached, only one creates a backend session, and all
\* their prompts go to that one session.
C32_OneSessionPerConversation ==
  \A i, j \in DOMAIN tasks :
    tasks[i].chat = tasks[j].chat =>
      /\ IsSome(tasks[i].created) /\ IsSome(tasks[j].created) => i = j
      /\ IsSome(tasks[i].prompted) /\ IsSome(tasks[j].prompted) =>
           tasks[i].prompted = tasks[j].prompted

---------------------------------------------------------------------------
(* The Feishu client: duplicate guard and message dispatcher *)

ProcessedCap == 2     \* capacity of the duplicate guard (2000 in the code)
MaxDeliveries == 2    \* deliveries of one inbound id

\* isMessageProcessed(messageId) on the remembered ids: whether the id is a duplicate,
\* and the remembered ids after the call
IsMessageProcessed_forgets(ids, messageId) ==
  [dup |-> \E i \in 1..Len(ids) : ids[i] = messageId, ids |-> ids]
IsMessageProcessed_newestOut(ids, messageId) ==
  IF \E i \in 1..Len(ids) : ids[i] = messageId
  THEN [dup |-> TRUE, ids |-> ids]
  ELSE LET added == Append(ids, messageId)
       IN [dup |-> FALSE,
           ids |-> IF Len(added) > ProcessedCap
                   THEN SubSeq(ids, 1, Len(ids) - 1) \o <<messageId>> ELSE added]
IsMessageProcessed(ids, messageId) ==
  IF \E i \in 1..Len(ids) : ids[i] = messageId
  THEN [dup |-> TRUE, ids |-> ids]
  ELSE LET added == Append(ids, messageId)
       IN [dup |-> FALSE, ids |-> IF Len(added) > ProcessedCap THEN Tail(added) ELSE added]

RECURSIVE RemoveAll(_, _)
\* text.replace(new RegExp(key, 'g'), '') for a key without pattern characters
RemoveAll(text, key) ==
  IF Len(text) < Len(key) THEN text
  ELSE IF SubSeq(text, 1, Len(key)) = key
  THEN RemoveAll(SubSeq(text, Len(key) + 1, Len(text)), key)
  ELSE <<Head(text)>> \o RemoveAll(Tail(text), key)

RECURSIVE StripMentions(_, _)
StripMentions(text, mentions) ==
  IF Len(mentions) = 0 THEN text
  ELSE StripMentions(IF TruthyStr(Head(mentions).key)
                     THEN RemoveAll(text, Val(Head(mentions).key)) ELSE text,
                     Tail(mentions))

\* parseAndCleanContent(contentJson, mentions): content is what JSON.parse gives, or
\* nothing when it throws
parseAndCleanContent(content, mentions) ==
  IF ~IsSome(content) THEN <<>>
  ELSE Trim(StripMentions(IF TruthyStr(Val(content).text) THEN Val(Val(content).text) ELSE <<>>,
                          mentions))

\* the inbound messages of the transport, by message_id: a text, a text that is only
\* a mention, a ping, and an image
InboundIds == {"i1", "i2", "i3", "i4"}
InboundMsgs ==
  [ i1 |-> [chat_id |-> "chatA", message_type |-> "text",
            content |-> Some([text |-> Some(<<"h", "i">>)]), mentions |-> <<>>],
    i2 |-> [chat_id |-> "chatA", message_type |-> "text",
            content |-> Some([text |-> Some(<<"@", "u", " ">>)]),
            mentions |-> << [key |-> Some(<<"@", "u">>)] >>],
    i3 |-> [chat_id |-> "chatA", message_type |-> "text",
            content |-> Some([text |-> Some(<<" ", "P", "i", "n", "g">>)]), mentions |-> <<>>],
    i4 |-> [chat_id |-> "chatA", message_type |-> "image",
            content |-> Some([text |-> None]), mentions |-> <<>>] ]

\* buildFilePart: a part with its filename, or null
FileParts == {None, Some([filename |-> <<"f">>])}
\* the text handed on for a file message; "U+6536" stands for one character
FileText(msgType, part) ==
  <<"U+6536", "U+5230", " ">> \o msgType \o <<" ", "U+6587", "U+4EF6", "U+FF1A">> \o Val(part).filename

NoHist == [delivered |-> 0, invoked |-> 0, prompted |-> 0, evicted |-> 0]
Hist(id) == IF id \in DOMAIN hist THEN hist[id] ELSE NoHist

\* im.message.receive_v1: the dispatcher's handler, down to the incoming handler it
\* awaits
Receive ==
  \E id \in InboundIds, part \in FileParts, created \in {None, Some(SessionName(1))},
     promptOk \in BOOLEAN :
    LET message == InboundMsgs[id]
        g == IsMessageProcessed(processedMessageIds, id)
        isText == message.message_type = "text"
        text == IF isText THEN parseAndCleanContent(message.content, message.mentions)
                ELSE IF IsSome(part) THEN FileText(<<"i", "m", "a", "g", "e">>, part) ELSE <<>>
        handed == ~g.dup /\ (IF isText THEN Len(text) > 0 ELSE IsSome(part))
        r == IncomingHandler("feishu", message.chat_id, text, "u1", created, promptOk)
        evicts == ~g.dup /\ Len(processedMessageIds) = ProcessedCap
        h1 == Put(hist, id, [Hist(id) EXCEPT
                               !.delivered = @ + 1,
                               !.invoked = @ + (IF handed THEN 1 ELSE 0),
                               !.prompted = @ + (IF handed /\ r.promptCalled THEN 1 ELSE 0)])
    IN /\ Hist(id).delivered < MaxDeliveries
       /\ processedMessageIds' = g.ids
       /\ hist' = IF evicts
                  THEN [h1 EXCEPT ![Head(processedMessageIds)].evicted = @ + 1]
                  ELSE h1
       /\ sessionCache' = IF handed THEN r.cache ELSE sessionCache
       /\ sessionToAdapterKey' = IF handed THEN r.toKey ELSE sessionToAdapterKey
       /\ sessionToCtx' = IF handed THEN r.ctx ELSE sessionToCtx
       /\ ev' = [LoopEv("receive") EXCEPT !.mid = id]
       /\ calls' = <<>>
       /\ UNCHANGED <<bufVars, sessionActiveMsg, msgRole, msgBuffers, listenerVars, tasks, chatQueues,
                      now, nextId, dec, shown>>

NextInbound == Receive

SpecInbound == Init /\ [][NextInbound]_vars

HasText(id) ==
  /\ InboundMsgs[id].message_type = "text"
  /\ Len(parseAndCleanContent(InboundMsgs[id].content, InboundMsgs[id].mentions)) > 0

---------------------------------------------------------------------------
(* SpecGuard: the duplicate guard alone, called with any sequence of inbound ids *)

MaxGuardCalls == 6    \* calls of the guard in one run

\* dcat is the log of the calls: the id, the remembered ids before the call, and what
\* the guard answered
InitGuard ==
  /\ buf = NewBuffer
  /\ last = NoEvent
  /\ dcat = <<>>
  /\ InitConsumer

\* isMessageProcessed(messageId), called by a receive handler
CallGuard ==
  \E id \in InboundIds :
    LET g == IsMessageProcessed(processedMessageIds, id)
    IN /\ Len(dcat) < MaxGuardCalls
       /\ processedMessageIds' = g.ids
       /\ dcat' = Append(dcat, [id |-> id, before |-> processedMessageIds, dup |-> g.dup])
       /\ UNCHANGED <<buf, last, hist, tasks, chatQueues, mapVars, listenerVars,
                      now, nextId, ev, calls, dec, shown>>

NextGuard == CallGuard

SpecGuard == InitGuard /\ [][NextGuard]_vars

InSeq(x, s) == \E i \in 1..Len(s) : s[i] = x
\* call k brought an identifier the guard did not remember
NewId(k) == ~InSeq(dcat[k].id, dcat[k].before)
\* the identifiers of the calls that brought a new one, in the order of the calls
RECURSIVE NewIds(_)
NewIds(n) ==
  IF n = 0 THEN <<>>
  ELSE IF NewId(n) THEN Append(NewIds(n - 1), dcat[n].id) ELSE NewIds(n - 1)
LastN(s, n) == IF Len(s) <= n THEN s ELSE SubSeq(s, Len(s) - n + 1, Len(s))
\* call j is the first delivery of its identifier
FirstDelivery(j) == \A i \in 1..(j - 1) : dcat[i].id # dcat[j].id
\* the distinct new identifiers that arrived after call j and before call k
NewSince(j, k) == { dcat[i].id : i \in { n \in (j + 1)..(k - 1) : NewId(n) } }

\* C38: after every call of the duplicate guard the remembered identifiers are at
\* most the capacity; they are the identifiers that arrived new, the latest ones up
\* to the capacity in arrival order (the one removed is the one inserted earliest);
\* an identifier is rejected exactly when it is remembered at the call; and a
\* re-delivery is rejected whenever fewer new distinct identifiers than the capacity
\* arrived since its first delivery.
C38_DuplicateGuard ==
  /\ Len(processedMessageIds) <= ProcessedCap
  /\ processedMessageIds = LastN(NewIds(Len(dcat)), ProcessedCap)
  /\ \A k \in 1..Len(dcat) : dcat[k].dup <=> ~NewId(k)
  /\ \A j, k \in 1..Len(dcat) :
       /\ j < k
       /\ dcat[j].id = dcat[k].id
       /\ FirstDelivery(j)
       /\ Cardinality(NewSince(j, k)) < ProcessedCap
       => dcat[k].dup

\* an identifier was rejected on re-delivery with one new identifier in between, a
\* new identifier pushed the earliest one out, and the one pushed out was accepted
\* again afterwards
C38_Witness ==
  \E j, k, n, m \in 1..Len(dcat) :
    /\ j < k /\ k < n /\ n < m
    /\ dcat[j].id = dcat[k].id /\ FirstDelivery(j) /\ dcat[k].dup
    /\ Cardinality(NewSince(j, k)) = ProcessedCap - 1
    /\ ~dcat[n].dup /\ Len(dcat[n].before) = ProcessedCap
    /\ dcat[m].id = Head(dcat[n].before) /\ ~dcat[m].dup


---------------------------------------------------------------------------
(* SpecClip: clipTail applied to any string and budget, once and again *)

MaxClipLen == 4       \* length of the string clipped
MaxClipMax == 5       \* the budget
ClipChars == {"a", "b"}
ClipStrings == UNION { [1..n -> ClipChars] : n \in 0..MaxClipLen }

\* dcat holds the call: the string, the budget, the result of clipping once and the
\* result of clipping that again
InitClip ==
  /\ buf = NewBuffer
  /\ last = NoEvent
  /\ \E s \in ClipStrings, max \in 0..MaxClipMax :
       dcat = [s |-> s, max |-> max, once |-> None, twice |-> None]
  /\ InitConsumer

Clip ==
  /\ ~IsSome(dcat.once)
  /\ dcat' = [dcat EXCEPT !.once = Some(clipTail(dcat.s, dcat.max))]
  /\ UNCHANGED <<buf, last, consumerVars>>

ClipAgain ==
  /\ IsSome(dcat.once)
  /\ ~IsSome(dcat.twice)
  /\ dcat' = [dcat EXCEPT !.twice = Some(clipTail(Val(dcat.once), dcat.max))]
  /\ UNCHANGED <<buf, last, consumerVars>>

NextClip == Clip \/ ClipAgain

SpecClip == InitClip /\ [][NextClip]_vars

---------------------------------------------------------------------------
(* SpecQueue: the queued handler revision, one task per inbound message, split *)
(* at its awaits. tasks is the sequence of the handler's calls in arrival      *)
(* order; sessionMap is held in sessionCache and sessionOwnerMap in            *)
(* sessionToCtx.                                                               *)

MaxQueued == 3        \* calls of the handler in one run

\* map.delete(k)
Unset(f, k) == [x \in DOMAIN f \ {k} |-> f[x]]

Settled(t) == t.pc \in {"resolved", "rejected"}

\* `await previousTask.catch(() => {})`: the task goes on once the task registered
\* before it for the chat has settled, resolved or rejected; 0 is Promise.resolve()
AwaitPrevious_noWait(t) == TRUE
AwaitPrevious(t) == IF t.prev = 0 THEN TRUE ELSE Settled(tasks[t.prev])

\* the task's promise settles; its locals are gone
Settle(t, ok) ==
  [t EXCEPT !.pc = IF ok THEN "resolved" ELSE "rejected", !.reactionId = FALSE, !.threw = FALSE]

\* the end of the try statement: the finally block removes the reaction when there
\* is one, and the task settles, rejected when the catch block threw
Finally(t, threw) ==
  IF t.reactionId THEN [t EXCEPT !.pc = "removing", !.threw = threw]
  ELSE Settle(t, ~threw)

QueueUnchanged ==
  UNCHANGED <<bufVars, sessionActiveMsg, msgRole, msgBuffers, sessionToAdapterKey, listenerVars,
              processedMessageIds, hist, now, nextId, ev, calls, dec, shown>>

\* the handler is called: a ping is answered outside the queue; otherwise the task
\* is created behind the one registered for the chat and registered in its place
QueuedArrive ==
  \E chatId \in Convs, ping \in BOOLEAN :
    LET n == Len(tasks) + 1
        previousTask == IF chatId \in DOMAIN chatQueues THEN chatQueues[chatId] ELSE 0
    IN /\ Len(tasks) < MaxQueued
       /\ tasks' = Append(tasks, [chat |-> chatId, ping |-> ping,
                                   pc |-> IF ping THEN "pong" ELSE "waiting",
                                   prev |-> IF ping THEN 0 ELSE previousTask,
                                   reactionId |-> FALSE, threw |-> FALSE])
       /\ chatQueues' = IF ping THEN chatQueues ELSE Put(chatQueues, chatId, n)
       /\ UNCHANGED <<sessionCache, sessionToCtx>>
       /\ QueueUnchanged

\* sendMessage('Pong!') has returned or thrown
PongSent ==
  \E i \in 1..Len(tasks), ok \in BOOLEAN :
    /\ tasks[i].pc = "pong"
    /\ tasks' = [tasks EXCEPT ![i].pc = IF ok THEN "resolved" ELSE "rejected"]
    /\ UNCHANGED <<chatQueues, sessionCache, sessionToCtx>>
    /\ QueueUnchanged

\* the previous task has settled: addReaction is called
QueuedResume ==
  \E i \in 1..Len(tasks) :
    /\ tasks[i].pc = "waiting"
    /\ AwaitPrevious(tasks[i])
    /\ tasks' = [tasks EXCEPT ![i].pc = "reacting"]
    /\ UNCHANGED <<chatQueues, sessionCache, sessionToCtx>>
    /\ QueueUnchanged

\* addReaction has returned an id or null, or thrown: sessionMap is read; a known
\* session is prompted, otherwise createSession is called
QueuedReacted ==
  \E i \in 1..Len(tasks), r \in {"id", "null", "throw"} :
    LET t == tasks[i] IN
    /\ t.pc = "reacting"
    /\ tasks' = [tasks EXCEPT ![i] =
                   IF r = "throw" THEN [t EXCEPT !.pc = "reporting"]
                   ELSE [t EXCEPT !.reactionId = (r = "id"),
                                  !.pc = IF t.chat \in DOMAIN sessionCache
                                         THEN "prompting" ELSE "creating"]]
    /\ UNCHANGED <<chatQueues, sessionCache, sessionToCtx>>
    /\ QueueUnchanged

\* createSession has returned with an id (remembered for the chat and its sender,
\* then prompted), without one ('No Session ID') or thrown
QueuedCreated ==
  \E i \in 1..Len(tasks), r \in {"id", "noid", "throw"} :
    LET t == tasks[i] IN
    /\ t.pc = "creating"
    /\ r = "id" => FreshSessions # {}
    /\ tasks' = [tasks EXCEPT ![i].pc = IF r = "id" THEN "prompting" ELSE "reporting"]
    /\ sessionCache' = IF r = "id" THEN Put(sessionCache, t.chat, FreshSession)
                       ELSE sessionCache
    /\ sessionToCtx' = IF r = "id" THEN Put(sessionToCtx, FreshSession, [senderId |-> "u1"])
                       ELSE sessionToCtx
    /\ UNCHANGED chatQueues
    /\ QueueUnchanged

\* promptSession has returned, failed with 404 (the session is forgotten) or
\* failed otherwise
QueuedPrompted ==
  \E i \in 1..Len(tasks), r \in PromptResults :
    LET t == tasks[i] IN
    /\ t.pc = "prompting"
    /\ tasks' = [tasks EXCEPT ![i].pc = IF r = "ok" THEN "polling" ELSE "reporting"]
    /\ sessionCache' = IF r = "notfound" THEN Unset(sessionCache, t.chat) ELSE sessionCache
    /\ UNCHANGED <<chatQueues, sessionToCtx>>
    /\ QueueUnchanged

\* the polling loop has ended: with a reply or after its last attempt (a message
\* is sent), or with the error of the last message or of getMessages
QueuedPolled ==
  \E i \in 1..Len(tasks), r \in {"reply", "timeout", "error"} :
    /\ tasks[i].pc = "polling"
    /\ tasks' = [tasks EXCEPT ![i].pc = IF r = "error" THEN "reporting" ELSE "replying"]
    /\ UNCHANGED <<chatQueues, sessionCache, sessionToCtx>>
    /\ QueueUnchanged

\* sendMessage of the try block has returned or thrown
QueuedReplied ==
  \E i \in 1..Len(tasks), ok \in BOOLEAN :
    /\ tasks[i].pc = "replying"
    /\ tasks' = [tasks EXCEPT ![i] = IF ok THEN Finally(@, FALSE)
                                      ELSE [@ EXCEPT !.pc = "reporting"]]
    /\ UNCHANGED <<chatQueues, sessionCache, sessionToCtx>>
    /\ QueueUnchanged

\* sendMessage of the catch block has returned or thrown
QueuedReported ==
  \E i \in 1..Len(tasks), ok \in BOOLEAN :
    /\ tasks[i].pc = "reporting"
    /\ tasks' = [tasks EXCEPT ![i] = Finally(@, ~ok)]
    /\ UNCHANGED <<chatQueues, sessionCache, sessionToCtx>>
    /\ QueueUnchanged

\* removeReaction of the finally block has returned or thrown
QueuedRemoved ==
  \E i \in 1..Len(tasks), ok \in BOOLEAN :
    /\ tasks[i].pc = "removing"
    /\ tasks' = [tasks EXCEPT ![i] = Settle(@, ok /\ ~tasks[i].threw)]
    /\ UNCHANGED <<chatQueues, sessionCache, sessionToCtx>>
    /\ QueueUnchanged

NextQueue ==
  \/ QueuedArrive
  \/ PongSent
  \/ QueuedResume
  \/ QueuedReacted
  \/ QueuedCreated
  \/ QueuedPrompted
  \/ QueuedPolled
  \/ QueuedReplied
  \/ QueuedReported
  \/ QueuedRemoved

SpecQueue == Init /\ [][NextQueue]_vars

\* the task has gone on from its wait for the previous task
Started(t) == t.pc # "waiting"

\* C40: in the queued handler revision, of two non-ping messages of one chat the
\* task of the later one does not go on to its reaction, its session lookup or its
\* prompt before the task of the earlier one has settled, resolved or rejected.
C40_OneAtATimePerChat ==
  \A i, j \in 1..Len(tasks) :
    /\ i < j
    /\ tasks[i].chat = tasks[j].chat
    /\ ~tasks[i].ping /\ ~tasks[j].ping
    /\ Started(tasks[j])
    => Settled(tasks[i])

\* the first task of a chat has failed and the second is being prompted, while the
\* task of a later message of another chat has already finished
C40_Witness ==
  \E i, j, k \in 1..Len(tasks) :
    /\ i < j /\ j < k
    /\ ~tasks[i].ping /\ ~tasks[j].ping /\ ~tasks[k].ping
    /\ tasks[i].chat = tasks[j].chat /\ tasks[k].chat # tasks[j].chat
    /\ tasks[i].pc = "rejected"
    /\ tasks[j].pc = "prompting"
    /\ tasks[k].pc = "resolved"

===========================================================================
